---- MODULE Spec2Model ----
(***************************************************************************)
(* File lifecycle of the drive backend: the File collection (metadata),    *)
(* the S3 bucket (blobs) and the per-user storageUsed counter, driven by   *)
(* the file routes, the file service and the auth middleware's user cache. *)
(* Every request handler is one action; requests run one at a time.        *)
(***************************************************************************)
EXTENDS Integers, Sequences, FiniteSets, TLC

\* ------------------------------------------------------------------ bounds
\* Number of ObjectIds / UUIDs ever handed out.
MaxFiles == 3
\* storageLimit of every user (bytes, scaled down from the schema default).
StorageLimit == 3
MaxTicks == 1
\* How far above storageLimit the explored storageUsed may go.
MaxOverdraft == 2
\* trashRetentionDays: the schema default, also `user.trashRetentionDays || 30`.
RetentionDays == 30

Users == {"u1", "u2"}
Names == {"a", "b"}
\* Sizes of uploaded files (bytes, scaled).
FileSizes == {1, 2}
Ids == 1..MaxFiles
\* Directory parts of an upload's relativePath.
DirPaths == {<< >>, <<"a">>, <<"a", "b">>}

\* parentId: null (root); trashedAt: null; cache.get: null
Null == 0
NoDate == -1
\* tokenVersion is incremented by every password reset; the model stops at
\* MaxVersion.
MaxVersion == 2
Versions == 0..MaxVersion
NoEntry == [storageUsed |-> -1, storageLimit |-> -1, tokenVersion |-> -1,
            isActive |-> FALSE]

VARIABLES
    files,   \* File collection: _id -> document
    blobs,   \* S3 bucket: set of object keys
    users,   \* User collection: user -> [storageUsed, storageLimit]
    cache,   \* Redis "user:<id>" entries: user -> cached user object or NoEntry
    nextId,  \* next fresh ObjectId / UUID
    now,     \* wall clock (days)
    resp,    \* the last request and its response
    calls,   \* calls in flight: caller -> locals
    tokens   \* PasswordResetToken collection: the users holding a token

vars == <<files, blobs, users, cache, nextId, now, resp, calls, tokens>>

\* ------------------------------------------------------------ File schema
NewFile(u, name, type, key, size, parent) ==
    [userId |-> u, name |-> name, type |-> type, s3Key |-> key, size |-> size,
     parentId |-> parent, isStarred |-> FALSE, isTrash |-> FALSE,
     trashedAt |-> NoDate]

\* `folders/${userId}/${randomUUID()}` and `uploads/${userId}/${fileId}`,
\* as the sequence of their "/"-separated segments.
FolderKey(u, k) == <<"folders", u, k>>
UploadKey(u, k) == <<"uploads", u, k>>

MinOf(S) == CHOOSE x \in S : \A y \in S : x <= y

Insert(fs, id, doc) == fs @@ (id :> doc)
Remove(fs, S) == [i \in (DOMAIN fs) \ S |-> fs[i]]

\* ---------------------------------------------------------- authenticate
\* req.user: the cached user object when the cache holds one, else the
\* database record, which is then cached.
ReqUser(u) == IF cache[u] # NoEntry THEN cache[u] ELSE users[u]
Authenticate(u) == cache' = [cache EXCEPT ![u] = ReqUser(u)]

\* The cache entry of a user expires (TTL 60 s).
CacheExpire(u) ==
    /\ cache[u] # NoEntry
    /\ cache' = [cache EXCEPT ![u] = NoEntry]
    /\ resp' = [op |-> "expire", status |-> 0, msg |-> ""]
    /\ UNCHANGED <<files, blobs, users, nextId, now, calls, tokens>>

\* ------------------------------------------------------- POST /folder
\* File.findOne({_id: parentId, userId, type: "folder"}), else null
ParentDoc(fs, u, parentId) ==
    IF /\ parentId # Null
       /\ parentId \in DOMAIN fs
       /\ fs[parentId].userId = u
       /\ fs[parentId].type = "folder"
    THEN parentId ELSE Null

ExistingFolder(fs, u, name, parent) ==
    {i \in DOMAIN fs : /\ fs[i].userId = u
                       /\ fs[i].name = name
                       /\ fs[i].type = "folder"
                       /\ fs[i].parentId = parent
                       /\ ~fs[i].isTrash}

\* The handler's outcome: status and the File collection after it.
CreateFolderRun(fs, u, name, parentId, id) ==
    LET parent == ParentDoc(fs, u, parentId) IN
    IF name = ""
        THEN [status |-> 400, msg |-> "Folder name is required.", files |-> fs]
    ELSE IF ExistingFolder(fs, u, name, parent) # {}
        THEN [status |-> 400,
              msg |-> "A folder with this name already exists here.",
              files |-> fs]
    ELSE [status |-> 201, msg |-> "",
               files |-> Insert(fs, id, NewFile(u, name, "folder",
                                               FolderKey(u, id), 0, parent))]

CreateFolder(u, name, parentId) ==
    /\ nextId <= MaxFiles
    /\ LET r == CreateFolderRun(files, u, name, parentId, nextId) IN
       /\ files' = r.files
       /\ nextId' = IF r.status = 201 THEN nextId + 1 ELSE nextId
       /\ resp' = [op |-> "folder", status |-> r.status, msg |-> r.msg]
    /\ Authenticate(u)
    /\ UNCHANGED <<blobs, users, now, calls, tokens>>

\* ---------------------------------------------------------- PATCH /:id
\* Variant: findOne({ _id: id }) without the userId condition.
OwnItemAnyUser(fs, u, id) == id \in DOMAIN fs
\* File.findOne({ _id: id, userId: req.user._id })
OwnItem(fs, u, id) == id \in DOMAIN fs /\ fs[id].userId = u

RenameRun(fs, u, id, name) ==
    IF name = "" THEN [status |-> 400, msg |-> "Name is required.", files |-> fs]
    ELSE IF ~OwnItem(fs, u, id)
        THEN [status |-> 404, msg |-> "Not found.", files |-> fs]
    ELSE [status |-> 200, msg |-> "", files |-> [fs EXCEPT ![id].name = name]]

Rename(u, id, name) ==
    /\ LET r == RenameRun(files, u, id, name) IN
       /\ files' = r.files
       /\ resp' = [op |-> "rename", status |-> r.status, msg |-> r.msg]
    /\ Authenticate(u)
    /\ UNCHANGED <<blobs, users, nextId, now, calls, tokens>>

\* ------------------------------------------------------ POST /:id/move
\* The cycle check's walk: ancestorIds collects newParent.parentId and every
\* parentId reached from it through the caller's documents.  `fuel` bounds
\* the walk in the model (the code's loop has no bound).
RECURSIVE AncestorIds(_, _, _, _)
AncestorIds(fs, u, a, fuel) ==
    IF a = Null \/ fuel = 0 THEN {}
    ELSE {a} \cup (IF OwnItem(fs, u, a)
                   THEN AncestorIds(fs, u, fs[a].parentId, fuel - 1)
                   ELSE {})

\* Mutant of MoveCycle: only the destination's own parent is compared.
MoveCycleParentOnly(fs, u, id, newParent) == fs[newParent].parentId = id

MoveCycle(fs, u, id, newParent) ==
    id \in AncestorIds(fs, u, fs[newParent].parentId, MaxFiles + 1)

NameTaken(fs, u, parent, name) ==
    \E i \in DOMAIN fs : /\ fs[i].userId = u
                         /\ fs[i].parentId = parent
                         /\ fs[i].name = name
                         /\ ~fs[i].isTrash

\* Mutant of MoveRun: parentId is saved before the name-collision check.
MoveRunSaveFirst(fs, u, id, newParentId) ==
    IF ~OwnItem(fs, u, id)
        THEN [status |-> 404, msg |-> "Not found.", files |-> fs]
    ELSE IF fs[id].parentId = newParentId
        THEN [status |-> 200, msg |-> "", files |-> fs]
    ELSE IF newParentId # Null /\ ParentDoc(fs, u, newParentId) = Null
        THEN [status |-> 400, msg |-> "Destination folder not found.",
              files |-> fs]
    ELSE IF newParentId # Null /\ newParentId = id
        THEN [status |-> 400, msg |-> "Cannot move into itself.", files |-> fs]
    ELSE IF newParentId # Null /\ MoveCycle(fs, u, id, newParentId)
        THEN [status |-> 400,
              msg |-> "Cannot move folder into its own descendant.",
              files |-> fs]
    ELSE [status |-> IF NameTaken(fs, u, newParentId, fs[id].name)
                     THEN 400 ELSE 200,
          msg |-> IF NameTaken(fs, u, newParentId, fs[id].name)
                  THEN "An item with this name already exists in the destination."
                  ELSE "",
          files |-> [fs EXCEPT ![id].parentId = newParentId]]

\* parentId "root" or "" is sent as Null here.
\* Variant: the move also gives the node a new storage key.
MoveRunRekeys(fs, u, id, newParentId) ==
    IF ~OwnItem(fs, u, id)
        THEN [status |-> 404, msg |-> "Not found.", files |-> fs]
    ELSE IF fs[id].parentId = newParentId
        THEN [status |-> 200, msg |-> "", files |-> fs]
    ELSE IF newParentId # Null /\ ParentDoc(fs, u, newParentId) = Null
        THEN [status |-> 400, msg |-> "Destination folder not found.",
              files |-> fs]
    ELSE IF newParentId # Null /\ newParentId = id
        THEN [status |-> 400, msg |-> "Cannot move into itself.", files |-> fs]
    ELSE IF newParentId # Null /\ MoveCycle(fs, u, id, newParentId)
        THEN [status |-> 400,
              msg |-> "Cannot move folder into its own descendant.",
              files |-> fs]
    ELSE IF NameTaken(fs, u, newParentId, fs[id].name)
        THEN [status |-> 400,
              msg |-> "An item with this name already exists in the destination.",
              files |-> fs]
    ELSE [status |-> 200, msg |-> "",
          files |-> [fs EXCEPT ![id].parentId = newParentId,
                                ![id].s3Key = <<"moved", u, id>>]]

MoveRun(fs, u, id, newParentId) ==
    IF ~OwnItem(fs, u, id)
        THEN [status |-> 404, msg |-> "Not found.", files |-> fs]
    ELSE IF fs[id].parentId = newParentId
        THEN [status |-> 200, msg |-> "", files |-> fs]
    ELSE IF newParentId # Null /\ ParentDoc(fs, u, newParentId) = Null
        THEN [status |-> 400, msg |-> "Destination folder not found.",
              files |-> fs]
    ELSE IF newParentId # Null /\ newParentId = id
        THEN [status |-> 400, msg |-> "Cannot move into itself.", files |-> fs]
    ELSE IF newParentId # Null /\ MoveCycle(fs, u, id, newParentId)
        THEN [status |-> 400,
              msg |-> "Cannot move folder into its own descendant.",
              files |-> fs]
    ELSE IF NameTaken(fs, u, newParentId, fs[id].name)
        THEN [status |-> 400,
              msg |-> "An item with this name already exists in the destination.",
              files |-> fs]
    ELSE [status |-> 200, msg |-> "",
          files |-> [fs EXCEPT ![id].parentId = newParentId]]

Move(u, id, newParentId) ==
    /\ LET r == MoveRun(files, u, id, newParentId) IN
       /\ files' = r.files
       /\ resp' = [op |-> "move", status |-> r.status, msg |-> r.msg]
    /\ Authenticate(u)
    /\ UNCHANGED <<blobs, users, nextId, now, calls, tokens>>

\* -------------------------------------------------------- fileService.js
\* new RegExp(`^${escapedKey}/`) on a document's s3Key: the key starts with
\* the folder's key followed by "/", i.e. the folder's segments are a proper
\* prefix of the key's segments.
KeyUnder(folderKey, key) ==
    /\ Len(key) > Len(folderKey)
    /\ SubSeq(key, 1, Len(folderKey)) = folderKey

\* File.find({userId, $or: [{parentId: item._id}, {s3Key: /^key\//}]})
Children(fs, u, id) ==
    {c \in DOMAIN fs : /\ fs[c].userId = u
                       /\ \/ fs[c].parentId = id
                          \/ KeyUnder(fs[id].s3Key, fs[c].s3Key)}

SoftDeleted(fs, S, t) ==
    [i \in DOMAIN fs |->
        IF i \in S /\ ~fs[i].isTrash
        THEN [fs[i] EXCEPT !.isTrash = TRUE, !.trashedAt = t]
        ELSE fs[i]]

softDeleteFile(fs, u, id, t) ==
    IF ~OwnItem(fs, u, id) THEN [ok |-> FALSE, files |-> fs]
    ELSE [ok |-> TRUE,
          files |-> SoftDeleted(fs,
                        {id} \cup (IF fs[id].type = "folder"
                                   THEN Children(fs, u, id) ELSE {}), t)]

\* Mutant of Restored: isTrash is cleared but trashedAt is kept.
RestoredKeepsDate(fs, S) ==
    [i \in DOMAIN fs |->
        IF i \in S THEN [fs[i] EXCEPT !.isTrash = FALSE] ELSE fs[i]]

Restored(fs, S) ==
    [i \in DOMAIN fs |->
        IF i \in S
        THEN [fs[i] EXCEPT !.isTrash = FALSE, !.trashedAt = NoDate]
        ELSE fs[i]]

restoreFile(fs, u, id) ==
    IF ~OwnItem(fs, u, id) THEN [ok |-> FALSE, files |-> fs]
    ELSE [ok |-> TRUE,
          files |-> Restored(fs,
                        {id} \cup (IF fs[id].type = "folder"
                                   THEN Children(fs, u, id) ELSE {}))]

\* PATCH /:id/trash: toggles between softDeleteFile and restoreFile.
ToggleTrashRun(fs, u, id, t) ==
    IF ~OwnItem(fs, u, id) THEN [status |-> 404, msg |-> "Not found", files |-> fs]
    ELSE [status |-> 200, msg |-> "",
          files |-> IF ~fs[id].isTrash THEN softDeleteFile(fs, u, id, t).files
                    ELSE restoreFile(fs, u, id).files]

\* Mutant of ToggleTrash: trashing a file releases its size from the quota.
ToggleTrashFreesQuota(u, id) ==
    /\ LET r == ToggleTrashRun(files, u, id, now) IN
       /\ files' = r.files
       /\ resp' = [op |-> "toggleTrash", status |-> r.status, msg |-> r.msg]
       /\ users' = IF OwnItem(files, u, id) /\ ~files[id].isTrash
                      /\ files[id].type = "file"
                   THEN [users EXCEPT ![u].storageUsed = @ - files[id].size]
                   ELSE users
    /\ Authenticate(u)
    /\ UNCHANGED <<blobs, nextId, now, calls, tokens>>

ToggleTrash(u, id) ==
    /\ LET r == ToggleTrashRun(files, u, id, now) IN
       /\ files' = r.files
       /\ resp' = [op |-> "toggleTrash", status |-> r.status, msg |-> r.msg]
    /\ Authenticate(u)
    /\ UNCHANGED <<blobs, users, nextId, now, calls, tokens>>

\* POST /restore/:id
RestoreRun(fs, u, id) ==
    LET r == restoreFile(fs, u, id) IN
    [status |-> IF r.ok THEN 200 ELSE 404,
     msg |-> IF r.ok THEN "Restored." ELSE "File not found.", files |-> r.files]

Restore(u, id) ==
    /\ LET r == RestoreRun(files, u, id) IN
       /\ files' = r.files
       /\ resp' = [op |-> "restore", status |-> r.status, msg |-> r.msg]
    /\ Authenticate(u)
    /\ UNCHANGED <<blobs, users, nextId, now, calls, tokens>>

\* --------------------------------------------------------- POST /upload
\* The relativePath loop: for each directory part reuse the caller's folder of
\* that name under the current parent (File.findOne, any trash state; the
\* first match in insertion order), else create it.
RECURSIVE EnsureDirs(_, _, _, _, _)
EnsureDirs(fs, u, cur, dirs, id) ==
    IF dirs = << >> THEN [files |-> fs, parent |-> cur, nextId |-> id]
    ELSE LET found == {i \in DOMAIN fs : /\ fs[i].userId = u
                                         /\ fs[i].name = Head(dirs)
                                         /\ fs[i].type = "folder"
                                         /\ fs[i].parentId = cur}
         IN IF found # {}
            THEN EnsureDirs(fs, u, MinOf(found), Tail(dirs), id)
            ELSE EnsureDirs(Insert(fs, id, NewFile(u, Head(dirs), "folder",
                                                   FolderKey(u, id), 0, cur)),
                            u, id, Tail(dirs), id + 1)

\* dotIndex = relFileName.lastIndexOf("."); base and ext are the parts before
\* and from the dot when dotIndex > 0, else the whole name and "".  Of the
\* names used here only "a.txt" has a dot after its first character.
SplitName(relFileName) ==
    CASE relFileName = "a.txt" -> [base |-> "a", ext |-> ".txt"]
      [] OTHER -> [base |-> relFileName, ext |-> ""]

\* `${base} (${counter})${ext}`
NumberedName(relFileName, counter) ==
    SplitName(relFileName).base \o " (" \o ToString(counter) \o ")"
        \o SplitName(relFileName).ext

\* The duplicate-name loop: relFileName, then "base (1)ext", "base (2)ext", ...
\* until no live sibling has the name.
RECURSIVE FinalFileName(_, _, _, _, _, _)
FinalFileName(fs, u, parent, relFileName, candidate, counter) ==
    IF NameTaken(fs, u, parent, candidate)
    THEN FinalFileName(fs, u, parent, relFileName,
                       NumberedName(relFileName, counter), counter + 1)
    ELSE candidate

\* Store calls of the upload at which a failure can be injected.
UploadFailPoints ==
    {"put", "quotaDelete", "parent", "dirs", "exists", "create", "inc"}

Prefix(seq, n) == SubSeq(seq, 1, n)

\* Variant: the catch block does not delete the uploaded blob.
UploadRunKeepsBlob(st, ru, u, parentId, dirs, fileName, size, contentLength, fail) ==
    LET same == [status |-> 500, msg |-> "Upload failed.", files |-> st.files,
                 blobs |-> st.blobs, users |-> st.users, nextId |-> st.nextId]
        exceeded == [same EXCEPT !.status = 403,
                                 !.msg = "Storage quota exceeded."]
        made(n) == EnsureDirs(st.files, u, ParentDoc(st.files, u, parentId),
                              Prefix(dirs, n), st.nextId)
        d == made(Len(dirs))
        \* the catch block deleted the blob; folders made so far stay
        aborted(m) == [same EXCEPT !.files = m.files, !.nextId = m.nextId]
        key == UploadKey(u, d.nextId)
        name == FinalFileName(d.files, u, d.parent, fileName, fileName, 1)
        withFile == Insert(d.files, d.nextId,
                           NewFile(u, name, "file", key, size, d.parent))
    IN
    IF contentLength > 0 /\ ru.storageUsed + contentLength > ru.storageLimit
        THEN exceeded
    ELSE IF fail.at = "put" THEN same
    ELSE IF ru.storageUsed + size > ru.storageLimit
        THEN IF fail.at = "quotaDelete" THEN same ELSE exceeded
    ELSE IF fail.at = "parent" THEN same
    ELSE IF fail.at = "dirs" THEN aborted(made(fail.j - 1))
    ELSE IF fail.at = "exists" THEN aborted(d)
    ELSE IF fail.at = "create"
        THEN [aborted(d) EXCEPT !.blobs = st.blobs \cup {key}]
    ELSE IF fail.at = "inc"
        THEN [same EXCEPT !.files = withFile, !.nextId = d.nextId + 1]
    ELSE [status |-> 201, msg |-> "",
          files |-> withFile,
          blobs |-> st.blobs \cup {key},
          users |-> [st.users EXCEPT ![u].storageUsed = @ + size],
          nextId |-> d.nextId + 1]

\* Variant: $inc storageUsed issued before File.create.
UploadRunIncFirst(st, ru, u, parentId, dirs, fileName, size, contentLength, fail) ==
    LET same == [status |-> 500, msg |-> "Upload failed.", files |-> st.files,
                 blobs |-> st.blobs, users |-> st.users, nextId |-> st.nextId]
        exceeded == [same EXCEPT !.status = 403,
                                 !.msg = "Storage quota exceeded."]
        made(n) == EnsureDirs(st.files, u, ParentDoc(st.files, u, parentId),
                              Prefix(dirs, n), st.nextId)
        d == made(Len(dirs))
        \* the catch block deleted the blob; folders made so far stay
        aborted(m) == [same EXCEPT !.files = m.files, !.nextId = m.nextId]
        key == UploadKey(u, d.nextId)
        name == FinalFileName(d.files, u, d.parent, fileName, fileName, 1)
        withFile == Insert(d.files, d.nextId,
                           NewFile(u, name, "file", key, size, d.parent))
    IN
    IF contentLength > 0 /\ ru.storageUsed + contentLength > ru.storageLimit
        THEN exceeded
    ELSE IF fail.at = "put" THEN same
    ELSE IF ru.storageUsed + size > ru.storageLimit
        THEN IF fail.at = "quotaDelete" THEN same ELSE exceeded
    ELSE IF fail.at = "parent" THEN same
    ELSE IF fail.at = "dirs" THEN aborted(made(fail.j - 1))
    ELSE IF fail.at = "exists" THEN aborted(d)
    ELSE IF fail.at = "create"
        THEN [aborted(d) EXCEPT !.users[u].storageUsed = @ + size]
    ELSE IF fail.at = "inc"
        THEN [same EXCEPT !.files = withFile, !.nextId = d.nextId + 1]
    ELSE [status |-> 201, msg |-> "",
          files |-> withFile,
          blobs |-> st.blobs \cup {key},
          users |-> [st.users EXCEPT ![u].storageUsed = @ + size],
          nextId |-> d.nextId + 1]

\* st = [files, blobs, users, nextId]; ru = req.user; contentLength 0 = header
\* absent; fail = [at, j]: the store call that throws ("none": no failure;
\* "dirs": in iteration j of the relativePath loop).
UploadRun(st, ru, u, parentId, dirs, fileName, size, contentLength, fail) ==
    LET same == [status |-> 500, msg |-> "Upload failed.", files |-> st.files,
                 blobs |-> st.blobs, users |-> st.users, nextId |-> st.nextId]
        exceeded == [same EXCEPT !.status = 403,
                                 !.msg = "Storage quota exceeded."]
        made(n) == EnsureDirs(st.files, u, ParentDoc(st.files, u, parentId),
                              Prefix(dirs, n), st.nextId)
        d == made(Len(dirs))
        \* the catch block deleted the blob; folders made so far stay
        aborted(m) == [same EXCEPT !.files = m.files, !.nextId = m.nextId]
        key == UploadKey(u, d.nextId)
        name == FinalFileName(d.files, u, d.parent, fileName, fileName, 1)
        withFile == Insert(d.files, d.nextId,
                           NewFile(u, name, "file", key, size, d.parent))
    IN
    IF contentLength > 0 /\ ru.storageUsed + contentLength > ru.storageLimit
        THEN exceeded
    ELSE IF fail.at = "put" THEN same
    ELSE IF ru.storageUsed + size > ru.storageLimit
        THEN IF fail.at = "quotaDelete" THEN same ELSE exceeded
    ELSE IF fail.at = "parent" THEN same
    ELSE IF fail.at = "dirs" THEN aborted(made(fail.j - 1))
    ELSE IF fail.at \in {"exists", "create"} THEN aborted(d)
    ELSE IF fail.at = "inc"
        THEN [same EXCEPT !.files = withFile, !.nextId = d.nextId + 1]
    ELSE [status |-> 201, msg |-> "",
          files |-> withFile,
          blobs |-> st.blobs \cup {key},
          users |-> [st.users EXCEPT ![u].storageUsed = @ + size],
          nextId |-> d.nextId + 1]

Store == [files |-> files, blobs |-> blobs, users |-> users, nextId |-> nextId]
NoFail == [at |-> "none", j |-> 0]

UploadStep(u, parentId, dirs, fileName, size, contentLength, fail) ==
    /\ nextId + Len(dirs) <= MaxFiles
    /\ LET r == UploadRun(Store, ReqUser(u), u, parentId, dirs, fileName, size,
                          contentLength, fail) IN
       /\ files' = r.files
       /\ blobs' = r.blobs
       /\ users' = r.users
       /\ nextId' = r.nextId
       /\ resp' = [op |-> "upload", status |-> r.status, msg |-> r.msg]
    /\ Authenticate(u)
    /\ UNCHANGED <<now, calls, tokens>>

Upload(u, parentId, dirs, fileName, size, contentLength) ==
    UploadStep(u, parentId, dirs, fileName, size, contentLength, NoFail)

\* Whether the failing store call is reached in this run of the upload.
UploadFailApplies(ru, parentId, dirs, size, contentLength, at, j) ==
    LET preChecked == ~(contentLength > 0
                        /\ ru.storageUsed + contentLength > ru.storageLimit)
        exceeded == ru.storageUsed + size > ru.storageLimit
    IN CASE at = "put" -> preChecked /\ j = 0
         [] at = "quotaDelete" -> preChecked /\ exceeded /\ j = 0
         [] at = "parent" -> preChecked /\ ~exceeded /\ parentId # Null /\ j = 0
         [] at = "dirs" -> preChecked /\ ~exceeded /\ j \in 1..Len(dirs)
         [] at \in {"exists", "create", "inc"} ->
                preChecked /\ ~exceeded /\ j = 0
         [] OTHER -> FALSE

UploadFails(u, parentId, dirs, fileName, size, contentLength, at, j) ==
    /\ UploadFailApplies(ReqUser(u), parentId, dirs, size, contentLength, at, j)
    /\ UploadStep(u, parentId, dirs, fileName, size, contentLength,
                  [at |-> at, j |-> j])

\* ------------------------------------------------------ POST /upload-zip
\* An archive entry: entryName = dirs joined by "/", then name (a directory
\* entry has no name); size = entry.header.size.
ZipEntries ==
    {[isDirectory |-> FALSE, dirs |-> << >>, name |-> "a", size |-> 1],
     [isDirectory |-> FALSE, dirs |-> <<"a">>, name |-> "b", size |-> 2],
     [isDirectory |-> FALSE, dirs |-> << >>, name |-> ".DS_Store", size |-> 1],
     [isDirectory |-> TRUE, dirs |-> <<"a">>, name |-> "", size |-> 0]}

\* The archives: one entry, or two different entries in either order.
Archives ==
    {<<e>> : e \in ZipEntries}
        \cup {<<p[1], p[2]>> : p \in {q \in ZipEntries \X ZipEntries : q[1] # q[2]}}

\* An ObjectId that no document has.
BogusId == MaxFiles + 1

\* totalSize: entry.header.size of every entry that is not a directory.
RECURSIVE ZipTotalSize(_)
ZipTotalSize(entries) ==
    IF entries = << >> THEN 0
    ELSE (IF Head(entries).isDirectory THEN 0 ELSE Head(entries).size)
         + ZipTotalSize(Tail(entries))

\* entryName.includes("__MACOSX") || entryName.includes(".DS_Store"), or an
\* empty file name.
ZipSkipped(e) ==
    \/ e.name = ".DS_Store"
    \/ e.name = ""
    \/ \E j \in 1..Len(e.dirs) : e.dirs[j] = "__MACOSX"

\* ensurePath: for each part reuse the caller's live folder of that name
\* under the current parent (pathMap, else File.findOne with isTrash: false),
\* else create it.  The first parent is req.body.parentId as sent.
RECURSIVE EnsurePath(_, _, _, _, _)
EnsurePath(fs, u, cur, dirs, id) ==
    IF dirs = << >> THEN [files |-> fs, parent |-> cur, nextId |-> id]
    ELSE LET found == {i \in DOMAIN fs : /\ fs[i].userId = u
                                         /\ fs[i].name = Head(dirs)
                                         /\ fs[i].type = "folder"
                                         /\ fs[i].parentId = cur
                                         /\ ~fs[i].isTrash}
         IN IF found # {}
            THEN EnsurePath(fs, u, MinOf(found), Tail(dirs), id)
            ELSE EnsurePath(Insert(fs, id, NewFile(u, Head(dirs), "folder",
                                                   FolderKey(u, id), 0, cur)),
                            u, id, Tail(dirs), id + 1)

\* for (const entry of entries): a directory entry makes its path; a file
\* entry that is not skipped makes its folder path, writes its blob and
\* creates its node.
RECURSIVE ZipEach(_, _, _, _)
ZipEach(st, u, parentId, entries) ==
    IF entries = << >>
    THEN [files |-> st.files, blobs |-> st.blobs, nextId |-> st.nextId,
          count |-> 0]
    ELSE LET e == Head(entries)
             d == EnsurePath(st.files, u, parentId, e.dirs, st.nextId)
             key == UploadKey(u, d.nextId)
             next ==
                IF e.isDirectory
                THEN [files |-> d.files, blobs |-> st.blobs,
                      nextId |-> d.nextId, made |-> 0]
                ELSE IF ZipSkipped(e)
                THEN [files |-> st.files, blobs |-> st.blobs,
                      nextId |-> st.nextId, made |-> 0]
                ELSE [files |-> Insert(d.files, d.nextId,
                                       NewFile(u, e.name, "file", key, e.size,
                                               d.parent)),
                      blobs |-> st.blobs \cup {key},
                      nextId |-> d.nextId + 1, made |-> 1]
             rest == ZipEach(next, u, parentId, Tail(entries))
         IN [rest EXCEPT !.count = @ + next.made]

\* st = [files, blobs, users, nextId]; ru = req.user; contentLength 0 = header
\* absent.
UploadZipRun(st, ru, u, parentId, entries, contentLength) ==
    LET same == [status |-> 403, msg |-> "Storage quota exceeded.",
                 count |-> 0, files |-> st.files, blobs |-> st.blobs,
                 users |-> st.users, nextId |-> st.nextId]
        totalSize == ZipTotalSize(entries)
        r == ZipEach(st, u, parentId, entries)
    IN
    IF contentLength > 0 /\ ru.storageUsed + contentLength > ru.storageLimit
        THEN same
    ELSE IF ru.storageUsed + totalSize > ru.storageLimit
        THEN [same EXCEPT !.msg = "Storage quota exceeded (uncompressed size)."]
    ELSE [status |-> 201, msg |-> "Zip extracted successfully.",
          count |-> r.count, files |-> r.files, blobs |-> r.blobs,
          users |-> [st.users EXCEPT ![u].storageUsed = @ + totalSize],
          nextId |-> r.nextId]

UploadZip(u, parentId, entries, contentLength) ==
    /\ ZipEach(Store, u, parentId, entries).nextId <= MaxFiles + 1
    /\ users[u].storageUsed + ZipTotalSize(entries)
           <= StorageLimit + MaxOverdraft
    /\ LET r == UploadZipRun(Store, ReqUser(u), u, parentId, entries,
                             contentLength) IN
       /\ files' = r.files
       /\ blobs' = r.blobs
       /\ users' = r.users
       /\ nextId' = r.nextId
       /\ resp' = [op |-> "uploadZip", status |-> r.status, msg |-> r.msg,
                   count |-> r.count]
    /\ Authenticate(u)
    /\ UNCHANGED <<now, calls, tokens>>

\* ------------------------------------------------ deleteFilePermanently
RECURSIVE SumSize(_, _)
SumSize(fs, S) ==
    IF S = {} THEN 0
    ELSE LET i == CHOOSE x \in S : TRUE IN fs[i].size + SumSize(fs, S \ {i})

FilesIn(fs, S) == {i \in S : fs[i].type = "file"}
KeysOf(fs, S) == {fs[i].s3Key : i \in S}

\* Mutant of TotalSizeFreed: the children's sizes are not added.
TotalSizeFreedItemOnly(fs, id, children) ==
    IF fs[id].type = "file" THEN fs[id].size ELSE 0

\* totalSizeFreed: the sizes of the file children and of the item if a file.
TotalSizeFreed(fs, id, children) == SumSize(fs, FilesIn(fs, children \cup {id}))

DeleteFailPoints == {"childS3", "childDb", "itemS3", "itemDb", "inc"}

\* Variant: File.deleteOne issued before deleteFromS3.
deleteRecordFirst(st, u, id, fail) ==
    LET fs == st.files
        same == [ok |-> FALSE, threw |-> FALSE, files |-> fs,
                 blobs |-> st.blobs, users |-> st.users]
    IN
    IF ~OwnItem(fs, u, id) THEN same
    ELSE
    LET children == IF fs[id].type = "folder" THEN Children(fs, u, id) ELSE {}
        all == children \cup {id}
        totalSizeFreed == TotalSizeFreed(fs, id, children)
        gone(nodes, keys) ==
            [ok |-> FALSE, threw |-> TRUE, files |-> Remove(fs, nodes),
             blobs |-> st.blobs \ KeysOf(fs, FilesIn(fs, keys)),
             users |-> st.users]
    IN
    IF fail.at = "childS3" THEN gone(fail.done \cup {fail.c}, fail.done)
    ELSE IF fail.at = "childDb" THEN gone(fail.done, fail.done \cup {fail.c})
    ELSE IF fail.at = "itemS3" THEN gone(all, children)
    ELSE IF fail.at = "itemDb" THEN gone(children, all)
    ELSE IF fail.at = "inc" THEN gone(all, all)
    ELSE [ok |-> TRUE, threw |-> FALSE,
          files |-> Remove(fs, all),
          blobs |-> st.blobs \ KeysOf(fs, FilesIn(fs, all)),
          users |-> IF totalSizeFreed > 0
                    THEN [st.users EXCEPT ![u].storageUsed = @ - totalSizeFreed]
                    ELSE st.users]

\* fail = [at, c, done]: "childS3"/"childDb": the S3 delete / the deleteOne of
\* child c throws after the children in `done` were processed (File.find
\* returns the children in no specified order).
deleteFilePermanently(st, u, id, fail) ==
    LET fs == st.files
        same == [ok |-> FALSE, threw |-> FALSE, files |-> fs,
                 blobs |-> st.blobs, users |-> st.users]
    IN
    IF ~OwnItem(fs, u, id) THEN same
    ELSE
    LET children == IF fs[id].type = "folder" THEN Children(fs, u, id) ELSE {}
        all == children \cup {id}
        totalSizeFreed == TotalSizeFreed(fs, id, children)
        gone(nodes, keys) ==
            [ok |-> FALSE, threw |-> TRUE, files |-> Remove(fs, nodes),
             blobs |-> st.blobs \ KeysOf(fs, FilesIn(fs, keys)),
             users |-> st.users]
    IN
    IF fail.at = "childS3" THEN gone(fail.done, fail.done)
    ELSE IF fail.at = "childDb" THEN gone(fail.done, fail.done \cup {fail.c})
    ELSE IF fail.at = "itemS3" THEN gone(children, children)
    ELSE IF fail.at = "itemDb" THEN gone(children, all)
    ELSE IF fail.at = "inc" THEN gone(all, all)
    ELSE [ok |-> TRUE, threw |-> FALSE,
          files |-> Remove(fs, all),
          blobs |-> st.blobs \ KeysOf(fs, FilesIn(fs, all)),
          users |-> IF totalSizeFreed > 0
                    THEN [st.users EXCEPT ![u].storageUsed = @ - totalSizeFreed]
                    ELSE st.users]

NoDeleteFail == [at |-> "none", c |-> Null, done |-> {}]

\* Whether the failure point exists in this run of deleteFilePermanently.
DeleteFailApplies(fs, u, id, fail) ==
    /\ OwnItem(fs, u, id)
    /\ LET children == IF fs[id].type = "folder" THEN Children(fs, u, id) ELSE {}
       IN CASE fail.at = "childS3" ->
                   /\ fail.c \in FilesIn(fs, children)
                   /\ fail.done \subseteq children \ {fail.c}
            [] fail.at = "childDb" ->
                   /\ fail.c \in children
                   /\ fail.done \subseteq children \ {fail.c}
            [] fail.at = "itemS3" -> fs[id].type = "file"
            [] fail.at = "itemDb" -> TRUE
            [] fail.at = "inc" -> TotalSizeFreed(fs, id, children) > 0
            [] OTHER -> FALSE

\* DELETE /permanent/:id and DELETE /:id
DeleteRun(st, u, id, fail) ==
    LET r == deleteFilePermanently(st, u, id, fail) IN
    [status |-> IF r.threw THEN 500 ELSE IF r.ok THEN 200 ELSE 404,
     msg |-> IF r.threw THEN "Permanent delete failed."
             ELSE IF r.ok THEN "Permanently deleted." ELSE "File not found.",
     files |-> r.files, blobs |-> r.blobs, users |-> r.users]

DeleteStep(u, id, fail) ==
    /\ LET r == DeleteRun(Store, u, id, fail) IN
       /\ files' = r.files
       /\ blobs' = r.blobs
       /\ users' = r.users
       /\ resp' = [op |-> "delete", status |-> r.status, msg |-> r.msg]
    /\ Authenticate(u)
    /\ UNCHANGED <<nextId, now, calls, tokens>>

DeletePermanent(u, id) == DeleteStep(u, id, NoDeleteFail)

DeleteFails(u, id, at, c, done) ==
    /\ DeleteFailApplies(files, u, id, [at |-> at, c |-> c, done |-> done])
    /\ DeleteStep(u, id, [at |-> at, c |-> c, done |-> done])

\* ---------------------------------------------------------------- stars
\* PATCH /:id/star
\* Variant: findOneAndUpdate with upsert, a missing document is created.
ToggleStarRunUpsert(fs, u, id) ==
    IF id \notin DOMAIN fs
        THEN [status |-> 200, msg |-> "",
              files |-> Insert(fs, id, [NewFile(u, "a", "file",
                                                UploadKey(u, id), 0, Null)
                                        EXCEPT !.isStarred = TRUE])]
    ELSE IF fs[id].userId # u
        THEN [status |-> 404, msg |-> "Not found", files |-> fs]
    ELSE [status |-> 200, msg |-> "",
          files |-> [fs EXCEPT ![id].isStarred = ~@]]

ToggleStarRun(fs, u, id) ==
    IF ~OwnItem(fs, u, id) THEN [status |-> 404, msg |-> "Not found", files |-> fs]
    ELSE [status |-> 200, msg |-> "",
          files |-> [fs EXCEPT ![id].isStarred = ~@]]

ToggleStar(u, id) ==
    /\ LET r == ToggleStarRun(files, u, id) IN
       /\ files' = r.files
       /\ resp' = [op |-> "star", status |-> r.status, msg |-> r.msg]
    /\ Authenticate(u)
    /\ UNCHANGED <<blobs, users, nextId, now, calls, tokens>>

\* POST /bulk-star: File.find and File.updateMany with {_id: {$in: ids},
\* userId}; the new status is "some item found is not starred".
BulkStarRun(fs, u, ids) ==
    LET items == {i \in DOMAIN fs :
                     fs[i].userId = u /\ \E j \in 1..Len(ids) : ids[j] = i}
        newStatus == \E i \in items : ~fs[i].isStarred
    IN IF ids = << >>
       THEN [status |-> 400, msg |-> "ids array is required.", files |-> fs]
       ELSE [status |-> 200,
             msg |-> IF newStatus THEN "Added to Starred"
                     ELSE "Removed from Starred",
             files |-> [i \in DOMAIN fs |->
                           IF i \in items
                           THEN [fs[i] EXCEPT !.isStarred = newStatus]
                           ELSE fs[i]]]

BulkStar(u, ids) ==
    /\ LET r == BulkStarRun(files, u, ids) IN
       /\ files' = r.files
       /\ resp' = [op |-> "bulkStar", status |-> r.status, msg |-> r.msg]
    /\ Authenticate(u)
    /\ UNCHANGED <<blobs, users, nextId, now, calls, tokens>>

\* ------------------------------------------------------- bulk operations
\* The ids arrays a request body carries: empty, one id, two distinct ids.
IdLists ==
    {<< >>} \cup {<<i>> : i \in Ids}
            \cup {<<i, j>> : <<i, j>> \in {p \in Ids \X Ids : p[1] # p[2]}}

\* for (const id of ids) if (await softDeleteFile(id, userId)) count++
RECURSIVE SoftDeleteEach(_, _, _, _)
SoftDeleteEach(fs, u, ids, t) ==
    IF ids = << >> THEN [files |-> fs, count |-> 0]
    ELSE LET r == softDeleteFile(fs, u, Head(ids), t)
             rest == SoftDeleteEach(r.files, u, Tail(ids), t)
         IN [files |-> rest.files,
             count |-> rest.count + (IF r.ok THEN 1 ELSE 0)]

\* POST /bulk-delete
BulkDeleteRun(fs, u, ids, t) ==
    IF ids = << >>
    THEN [status |-> 400, msg |-> "ids array is required.", count |-> 0,
          files |-> fs]
    ELSE LET r == SoftDeleteEach(fs, u, ids, t) IN
         [status |-> 200, msg |-> "Moved to trash.", count |-> r.count,
          files |-> r.files]

BulkDelete(u, ids) ==
    /\ LET r == BulkDeleteRun(files, u, ids, now) IN
       /\ files' = r.files
       /\ resp' = [op |-> "bulkDelete", status |-> r.status, msg |-> r.msg,
                   count |-> r.count]
    /\ Authenticate(u)
    /\ UNCHANGED <<blobs, users, nextId, now, calls, tokens>>

\* for (const id of ids) if (await restoreFile(id, userId)) count++
RECURSIVE RestoreEach(_, _, _)
RestoreEach(fs, u, ids) ==
    IF ids = << >> THEN [files |-> fs, count |-> 0]
    ELSE LET r == restoreFile(fs, u, Head(ids))
             rest == RestoreEach(r.files, u, Tail(ids))
         IN [files |-> rest.files,
             count |-> rest.count + (IF r.ok THEN 1 ELSE 0)]

\* POST /trash/bulk-restore
BulkRestoreRun(fs, u, ids) ==
    IF ids = << >>
    THEN [status |-> 400, msg |-> "ids array is required.", count |-> 0,
          files |-> fs]
    ELSE LET r == RestoreEach(fs, u, ids) IN
         [status |-> 200, msg |-> "Restored.", count |-> r.count,
          files |-> r.files]

BulkRestore(u, ids) ==
    /\ LET r == BulkRestoreRun(files, u, ids) IN
       /\ files' = r.files
       /\ resp' = [op |-> "bulkRestore", status |-> r.status, msg |-> r.msg,
                   count |-> r.count]
    /\ Authenticate(u)
    /\ UNCHANGED <<blobs, users, nextId, now, calls, tokens>>


\* for (const id of ids) if (await deleteFilePermanently(id, userId)) count++
\* The call for the k-th id runs with the failure `fail` (k = 0: none); a
\* throw leaves the loop.
RECURSIVE DeleteEach(_, _, _, _, _)
DeleteEach(st, u, ids, k, fail) ==
    IF ids = << >>
    THEN [threw |-> FALSE, count |-> 0, files |-> st.files,
          blobs |-> st.blobs, users |-> st.users]
    ELSE LET r == deleteFilePermanently(st, u, Head(ids),
                                        IF k = 1 THEN fail ELSE NoDeleteFail)
         IN IF r.threw
            THEN [threw |-> TRUE, count |-> 0, files |-> r.files,
                  blobs |-> r.blobs, users |-> r.users]
            ELSE LET rest == DeleteEach(r, u, Tail(ids), k - 1, fail)
                 IN [rest EXCEPT !.count = @ + (IF r.ok THEN 1 ELSE 0)]

\* Mutant of BulkPermanentRun: a call that deleted nothing answers 404.
BulkPermanentRunStrict(st, u, ids, k, fail) ==
    IF ids = << >>
    THEN [status |-> 400, msg |-> "ids array is required.", count |-> 0,
          files |-> st.files, blobs |-> st.blobs, users |-> st.users]
    ELSE LET r == DeleteEach(st, u, ids, k, fail) IN
         [status |-> IF r.threw THEN 500 ELSE IF r.count = 0 THEN 404 ELSE 200,
          msg |-> IF r.threw THEN "Bulk permanent delete failed."
                  ELSE IF r.count = 0 THEN "File not found."
                  ELSE "Permanently deleted.",
          count |-> r.count,
          files |-> r.files, blobs |-> r.blobs, users |-> r.users]

\* DELETE /trash/bulk-permanent
BulkPermanentRun(st, u, ids, k, fail) ==
    IF ids = << >>
    THEN [status |-> 400, msg |-> "ids array is required.", count |-> 0,
          files |-> st.files, blobs |-> st.blobs, users |-> st.users]
    ELSE LET r == DeleteEach(st, u, ids, k, fail) IN
         [status |-> IF r.threw THEN 500 ELSE 200,
          msg |-> IF r.threw THEN "Bulk permanent delete failed."
                  ELSE "Permanently deleted.",
          count |-> r.count,
          files |-> r.files, blobs |-> r.blobs, users |-> r.users]

BulkPermanentStep(u, ids, k, fail) ==
    /\ LET r == BulkPermanentRun(Store, u, ids, k, fail) IN
       /\ files' = r.files
       /\ blobs' = r.blobs
       /\ users' = r.users
       /\ resp' = [op |-> "bulkPermanent", status |-> r.status, msg |-> r.msg,
                   count |-> r.count, ids |-> ids]
    /\ Authenticate(u)
    /\ UNCHANGED <<nextId, now, calls, tokens>>

BulkPermanent(u, ids) == BulkPermanentStep(u, ids, 0, NoDeleteFail)

\* The store as the k-th call of the loop finds it.
StoreBefore(st, u, ids, k) ==
    DeleteEach(st, u, SubSeq(ids, 1, k - 1), 0, NoDeleteFail)

BulkPermanentFails(u, ids, k, at, c, done) ==
    /\ k \in 1..Len(ids)
    /\ DeleteFailApplies(StoreBefore(Store, u, ids, k).files, u, ids[k],
                         [at |-> at, c |-> c, done |-> done])
    /\ BulkPermanentStep(u, ids, k, [at |-> at, c |-> c, done |-> done])

\* File.find({userId, isTrash: true}), returned in no specified order.
TrashedOf(fs, u) == {i \in DOMAIN fs : fs[i].userId = u /\ fs[i].isTrash}
Orders(S) ==
    {o \in [1..Cardinality(S) -> S] :
        \A a, b \in 1..Cardinality(S) : a # b => o[a] # o[b]}

\* DELETE /trash/empty
EmptyTrashRun(st, u, order, k, fail) ==
    LET r == DeleteEach(st, u, order, k, fail) IN
    [status |-> IF r.threw THEN 500 ELSE 200,
     msg |-> IF r.threw THEN "Failed to empty trash." ELSE "Trash emptied.",
     count |-> r.count,
     files |-> r.files, blobs |-> r.blobs, users |-> r.users]

EmptyTrashStep(u, order, k, fail) ==
    /\ order \in Orders(TrashedOf(files, u))
    /\ LET r == EmptyTrashRun(Store, u, order, k, fail) IN
       /\ files' = r.files
       /\ blobs' = r.blobs
       /\ users' = r.users
       /\ resp' = [op |-> "emptyTrash", status |-> r.status, msg |-> r.msg,
                   count |-> r.count]
    /\ Authenticate(u)
    /\ UNCHANGED <<nextId, now, calls, tokens>>

EmptyTrash(u, order) == EmptyTrashStep(u, order, 0, NoDeleteFail)

EmptyTrashFails(u, order, k, at, c, done) ==
    /\ k \in 1..Len(order)
    /\ DeleteFailApplies(StoreBefore(Store, u, order, k).files, u, order[k],
                         [at |-> at, c |-> c, done |-> done])
    /\ EmptyTrashStep(u, order, k, [at |-> at, c |-> c, done |-> done])

\* POST /bulk-delete in which File.findOne of the k-th softDeleteFile throws:
\* the ids before it are trashed, the handler's catch answers 500.
BulkDeleteFails(u, ids, k) ==
    /\ k \in 1..Len(ids)
    /\ files' = SoftDeleteEach(files, u, SubSeq(ids, 1, k - 1), now).files
    /\ resp' = [op |-> "bulkDelete", status |-> 500,
                msg |-> "Bulk delete failed.", count |-> 0]
    /\ Authenticate(u)
    /\ UNCHANGED <<blobs, users, nextId, now, calls, tokens>>

\* POST /trash/bulk-restore in which File.findOne of the k-th restoreFile
\* throws.
BulkRestoreFails(u, ids, k) ==
    /\ k \in 1..Len(ids)
    /\ files' = RestoreEach(files, u, SubSeq(ids, 1, k - 1)).files
    /\ resp' = [op |-> "bulkRestore", status |-> 500,
                msg |-> "Bulk restore failed.", count |-> 0]
    /\ Authenticate(u)
    /\ UNCHANGED <<blobs, users, nextId, now, calls, tokens>>

\* ------------------------------------------------------- cronService.js
\* The clock, in days: one step carries it past one more retention period.
\* The cached users (TTL 60 s) are gone by then, and the last response is
\* no longer the latest event.
Tick ==
    /\ now < MaxTicks * (RetentionDays + 1)
    /\ now' = now + RetentionDays + 1
    /\ cache' = [u \in Users |-> NoEntry]
    /\ resp' = [op |-> "none", status |-> 0, msg |-> ""]
    /\ UNCHANGED <<files, blobs, users, nextId, calls, tokens>>

\* File.find({userId, isTrash: true, trashedAt: {$lt: cutoffDate}})
ExpiredOf(fs, u, t) ==
    {i \in DOMAIN fs : /\ fs[i].userId = u
                       /\ fs[i].isTrash
                       /\ fs[i].trashedAt < t - RetentionDays}

\* Mutant of ReapEach: an expired document that no longer exists is an error.
RECURSIVE ReapEachThrowsOnMissing(_, _, _, _, _)
ReapEachThrowsOnMissing(st, u, order, k, fail) ==
    IF order = << >>
    THEN [threw |-> FALSE, count |-> 0, files |-> st.files,
          blobs |-> st.blobs, users |-> st.users]
    ELSE IF Head(order) \notin DOMAIN st.files
    THEN [threw |-> TRUE, count |-> 0, files |-> st.files,
          blobs |-> st.blobs, users |-> st.users]
    ELSE LET r == deleteFilePermanently(st, u, Head(order),
                                        IF k = 1 THEN fail ELSE NoDeleteFail)
         IN IF r.threw
            THEN [threw |-> TRUE, count |-> 0, files |-> r.files,
                  blobs |-> r.blobs, users |-> r.users]
            ELSE LET rest == ReapEachThrowsOnMissing(r, u, Tail(order),
                                                     k - 1, fail)
                 IN [rest EXCEPT !.count = @ + 1]

\* for (const file of expiredFiles): File.exists, deleteFilePermanently,
\* deletedCount++.  The call for the k-th document runs with the failure
\* `fail` (k = 0: none); a throw leaves the loop.
RECURSIVE ReapEach(_, _, _, _, _)
ReapEach(st, u, order, k, fail) ==
    IF order = << >>
    THEN [threw |-> FALSE, count |-> 0, files |-> st.files,
          blobs |-> st.blobs, users |-> st.users]
    ELSE IF Head(order) \notin DOMAIN st.files
    THEN ReapEach(st, u, Tail(order), k - 1, fail)
    ELSE LET r == deleteFilePermanently(st, u, Head(order),
                                        IF k = 1 THEN fail ELSE NoDeleteFail)
         IN IF r.threw
            THEN [threw |-> TRUE, count |-> 0, files |-> r.files,
                  blobs |-> r.blobs, users |-> r.users]
            ELSE LET rest == ReapEach(r, u, Tail(order), k - 1, fail)
                 IN [rest EXCEPT !.count = @ + 1]

\* for (const user of users): the users in the order `uorder`, the expired
\* documents of user u in the order forder[u]; the failure is in the loop of
\* user fu ("none": no failure).  A throw leaves both loops.
RECURSIVE SweepUsers(_, _, _, _, _, _)
SweepUsers(st, uorder, forder, fu, k, fail) ==
    IF uorder = << >>
    THEN [threw |-> FALSE, count |-> 0, found |-> 0, files |-> st.files,
          blobs |-> st.blobs, users |-> st.users]
    ELSE LET u == Head(uorder)
             r == ReapEach(st, u, forder[u], IF u = fu THEN k ELSE 0, fail)
         IN IF r.threw
            THEN [threw |-> TRUE, count |-> 0, found |-> Len(forder[u]),
                  files |-> r.files, blobs |-> r.blobs, users |-> r.users]
            ELSE LET rest == SweepUsers(r, Tail(uorder), forder, fu, k, fail)
                 IN [rest EXCEPT !.count = @ + r.count,
                                 !.found = @ + Len(forder[u])]

\* cleanupTrash: status 200 stands for a returned deletedCount, 500 for the
\* rethrown error; found is the number of expired documents it logged.
cleanupTrashStep(uorder, forder, fu, k, fail) ==
    /\ uorder \in Orders(Users)
    /\ \A u \in Users : forder[u] \in Orders(ExpiredOf(files, u, now))
    /\ LET r == SweepUsers(Store, uorder, forder, fu, k, fail) IN
       /\ files' = r.files
       /\ blobs' = r.blobs
       /\ users' = r.users
       /\ resp' = [op |-> "cleanupTrash",
                   status |-> IF r.threw THEN 500 ELSE 200, msg |-> "",
                   count |-> r.count, found |-> r.found]
    /\ UNCHANGED <<cache, nextId, now, calls, tokens>>

cleanupTrash(uorder, forder) ==
    cleanupTrashStep(uorder, forder, "none", 0, NoDeleteFail)

\* One store call of the deleteFilePermanently of the k-th expired document
\* of user fu throws.
cleanupTrashFails(uorder, forder, fu, k, at, c, done) ==
    /\ fu \in Users
    /\ \A u \in Users : forder[u] \in Orders(ExpiredOf(files, u, now))
    /\ k \in 1..Len(forder[fu])
    /\ LET before == ReapEach(Store, fu, SubSeq(forder[fu], 1, k - 1), 0,
                              NoDeleteFail)
       IN /\ forder[fu][k] \in DOMAIN before.files
          /\ DeleteFailApplies(before.files, fu, forder[fu][k],
                               [at |-> at, c |-> c, done |-> done])
    /\ cleanupTrashStep(uorder, forder, fu, k,
                        [at |-> at, c |-> c, done |-> done])

\* ------------------------------- deleteFilePermanently, call by call
\* The callers whose deleteFilePermanently may overlap: two API requests
\* (DELETE /permanent/:id) and the reaper.
Procs == {"api", "api2", "reaper"}
IdleCall == [pc |-> "idle", u |-> "none", nodes |-> {}, keys |-> {}, freed |-> 0]

\* The call starts: File.findOne of the item and File.find of its children.
\* The documents read, their keys and the total of their sizes are locals of
\* the call from here on.  The reaper calls for a document of its expired
\* list that File.exists still finds.
BeginDelete(p, u, id) ==
    /\ calls[p].pc = "idle"
    /\ OwnItem(files, u, id)
    /\ p = "reaper" => id \in ExpiredOf(files, u, now)
    /\ LET children == IF files[id].type = "folder"
                       THEN Children(files, u, id) ELSE {}
       IN calls' = [calls EXCEPT ![p] =
                       [pc |-> "read", u |-> u,
                        nodes |-> children \cup {id},
                        keys |-> KeysOf(files,
                                        FilesIn(files, children \cup {id})),
                        freed |-> TotalSizeFreed(files, id, children)]]
    /\ IF p = "reaper" THEN UNCHANGED cache ELSE Authenticate(u)
    /\ UNCHANGED <<files, blobs, users, nextId, now, resp, tokens>>

\* deleteFromS3 and File.deleteOne for the children and the item read: both
\* succeed silently on an object or a document that is already gone.
RemoveRead(p) ==
    /\ calls[p].pc = "read"
    /\ files' = Remove(files, calls[p].nodes)
    /\ blobs' = blobs \ calls[p].keys
    /\ calls' = [calls EXCEPT ![p].pc = "removed"]
    /\ UNCHANGED <<users, cache, nextId, now, resp, tokens>>

\* if (totalSizeFreed > 0) $inc storageUsed by -totalSizeFreed; return true.
SubtractFreed(p) ==
    /\ calls[p].pc = "removed"
    /\ users' = IF calls[p].freed > 0
                THEN [users EXCEPT ![calls[p].u].storageUsed = @ - calls[p].freed]
                ELSE users
    /\ calls' = [calls EXCEPT ![p] = IdleCall]
    /\ resp' = IF p = "reaper" THEN resp
               ELSE [op |-> "delete", status |-> 200,
                     msg |-> "Permanently deleted."]
    /\ UNCHANGED <<files, blobs, cache, nextId, now, tokens>>

\* ------------------------------------------- POST /auth/forgot-password
\* Unauthenticated; 204 whether or not the user exists.
ForgotPassword(u) ==
    /\ tokens' = IF users[u] # NoEntry THEN tokens \cup {u} ELSE tokens
    /\ resp' = [op |-> "forgotPassword", status |-> 204, msg |-> ""]
    /\ UNCHANGED <<files, blobs, users, cache, nextId, now, calls>>

\* ------------------------------------------------------ DELETE /auth/me
Passwords == {"", "right", "wrong"}
AccountFailPoints ==
    {"findUser", "findFiles", "files", "tokens", "user", "commit"}

DocsOf(fs, u) == {i \in DOMAIN fs : fs[i].userId = u}

\* Variant: the blobs are deleted before the metadata deletion.
DeleteAccountBlobsFirst(st, tk, u, password, transactional, fail) ==
    LET same == [status |-> 500, msg |-> "Failed to delete account.",
                 files |-> st.files, users |-> st.users, tokens |-> tk,
                 blobs |-> st.blobs, keys |-> {}, uncached |-> FALSE]
        noFiles == Remove(st.files, DocsOf(st.files, u))
        noBlobs == st.blobs \ KeysOf(st.files, DocsOf(st.files, u))
    IN
    IF password = ""
        THEN [same EXCEPT !.status = 400,
                  !.msg = "Password is required to delete account."]
    ELSE IF fail = "findUser" THEN same
    ELSE IF st.users[u] = NoEntry
        THEN [same EXCEPT !.status = 404, !.msg = "User not found."]
    ELSE IF password # "right"
        THEN [same EXCEPT !.status = 401, !.msg = "Incorrect password."]
    ELSE IF fail = "findFiles" THEN same
    ELSE IF fail = "files" THEN [same EXCEPT !.blobs = noBlobs]
    ELSE IF fail = "tokens"
        THEN IF transactional THEN [same EXCEPT !.blobs = noBlobs]
             ELSE [same EXCEPT !.files = noFiles, !.blobs = noBlobs]
    ELSE IF fail = "user"
        THEN IF transactional THEN [same EXCEPT !.blobs = noBlobs]
             ELSE [same EXCEPT !.files = noFiles, !.tokens = tk \ {u},
                               !.blobs = noBlobs]
    ELSE IF fail = "commit" /\ transactional
        THEN [same EXCEPT !.uncached = TRUE, !.blobs = noBlobs]
    ELSE [status |-> 200,
          msg |-> "Account and all associated data permanently deleted.",
          files |-> noFiles,
          users |-> [st.users EXCEPT ![u] = NoEntry],
          tokens |-> tk \ {u},
          blobs |-> noBlobs,
          keys |-> {},
          uncached |-> TRUE]

\* st = [files, blobs, users, nextId]; tk = the reset tokens; transactional =
\* session.startTransaction() did not throw; fail = the store call that
\* throws ("none": no failure).  keys = s3KeysToDelete handed to
\* Promise.allSettled after the commit; uncached = cache.del was reached.
DeleteAccountRun(st, tk, u, password, transactional, fail) ==
    LET same == [status |-> 500, msg |-> "Failed to delete account.",
                 files |-> st.files, users |-> st.users, tokens |-> tk,
                 blobs |-> st.blobs, keys |-> {}, uncached |-> FALSE]
        noFiles == Remove(st.files, DocsOf(st.files, u))
    IN
    IF password = ""
        THEN [same EXCEPT !.status = 400,
                  !.msg = "Password is required to delete account."]
    ELSE IF fail = "findUser" THEN same
    ELSE IF st.users[u] = NoEntry
        THEN [same EXCEPT !.status = 404, !.msg = "User not found."]
    ELSE IF password # "right"
        THEN [same EXCEPT !.status = 401, !.msg = "Incorrect password."]
    ELSE IF fail = "findFiles" THEN same
    ELSE IF fail = "files" THEN same
    ELSE IF fail = "tokens"
        THEN IF transactional THEN same ELSE [same EXCEPT !.files = noFiles]
    ELSE IF fail = "user"
        THEN IF transactional THEN same
             ELSE [same EXCEPT !.files = noFiles, !.tokens = tk \ {u}]
    ELSE IF fail = "commit" /\ transactional
        THEN [same EXCEPT !.uncached = TRUE]
    ELSE [status |-> 200,
          msg |-> "Account and all associated data permanently deleted.",
          files |-> noFiles,
          users |-> [st.users EXCEPT ![u] = NoEntry],
          tokens |-> tk \ {u},
          blobs |-> st.blobs,
          keys |-> KeysOf(st.files, DocsOf(st.files, u)),
          uncached |-> TRUE]

\* authenticate answers 401 when neither the cache nor the database holds
\* the user.  cache.del swallows its errors: the entry is deleted or stays.
\* The S3 deletes are started after the commit and not awaited: api call p
\* carries them on after the response.
DeleteAccount(p, u, password, transactional, fail, delOk) ==
    /\ p # "reaper" /\ calls[p].pc = "idle"
    /\ IF ReqUser(u) = NoEntry
       THEN /\ resp' = [op |-> "deleteAccount", status |-> 401,
                        msg |-> "User not found."]
            /\ UNCHANGED <<files, blobs, users, cache, calls, tokens>>
       ELSE LET r == DeleteAccountRun(Store, tokens, u, password,
                                      transactional, fail) IN
            /\ files' = r.files
            /\ blobs' = r.blobs
            /\ users' = r.users
            /\ tokens' = r.tokens
            /\ cache' = [cache EXCEPT ![u] = IF r.uncached /\ delOk
                                             THEN NoEntry ELSE ReqUser(u)]
            /\ calls' = IF r.keys = {} THEN calls
                        ELSE [calls EXCEPT ![p] =
                                 [IdleCall EXCEPT !.pc = "cleanup", !.u = u,
                                                  !.keys = r.keys]]
            /\ resp' = [op |-> "deleteAccount", status |-> r.status,
                        msg |-> r.msg]
    /\ UNCHANGED <<nextId, now>>

\* One deleteFromS3(key) of the allSettled batch settles: fulfilled (the
\* object is gone) or rejected (only counted in a warning).
CleanupS3(p, k, ok) ==
    /\ calls[p].pc = "cleanup"
    /\ k \in calls[p].keys
    /\ blobs' = IF ok THEN blobs \ {k} ELSE blobs
    /\ calls' = [calls EXCEPT ![p] = IF calls[p].keys = {k} THEN IdleCall
                                     ELSE [calls[p] EXCEPT !.keys = @ \ {k}]]
    /\ UNCHANGED <<files, users, cache, nextId, now, resp, tokens>>

\* --------------------------------------------- authenticate, the decision
\* The outcome of authenticate for a JWT of the user signed with version v,
\* given what cache.get and User.findById return (NoEntry: nothing).  A cached
\* object is used unless its tokenVersion is set and differs from v or it says
\* inactive; otherwise the database record is used and, when there is one,
\* cached.  `user.tokenVersion && ...`: version 0 (or a cached object without
\* the field) is never compared.  entry = the cache entry afterwards.
\* The branch taken on the result of cache.get.
AuthPath(cached, v) ==
    IF cached = NoEntry THEN "miss"
    ELSE IF cached.tokenVersion # 0 /\ v # cached.tokenVersion THEN "mismatch"
    ELSE IF ~cached.isActive THEN "inactive"
    ELSE "hit"

\* Variant of AuthRun: a cached object that says inactive is used as it is.
AuthRunTrustsCache(cached, dbUser, v) ==
    LET fromCache == /\ cached # NoEntry
                     /\ ~(cached.tokenVersion # 0 /\ v # cached.tokenVersion)
        user == IF fromCache THEN cached ELSE dbUser
        entry == IF fromCache \/ dbUser = NoEntry THEN cached ELSE dbUser
        path == AuthPath(cached, v)
    IN
    IF user = NoEntry
        THEN [status |-> 401, msg |-> "User not found.", user |-> user,
              entry |-> entry, path |-> path]
    ELSE IF user.tokenVersion # 0 /\ v # user.tokenVersion
        THEN [status |-> 401, msg |-> "Session expired. Please log in again.",
              user |-> user, entry |-> entry, path |-> path]
    ELSE [status |-> 200, msg |-> "", user |-> user, entry |-> entry,
          path |-> path]

AuthRun(cached, dbUser, v) ==
    LET fromCache == /\ cached # NoEntry
                     /\ ~(cached.tokenVersion # 0 /\ v # cached.tokenVersion)
                     /\ cached.isActive
        user == IF fromCache THEN cached ELSE dbUser
        entry == IF fromCache \/ dbUser = NoEntry THEN cached ELSE dbUser
        path == AuthPath(cached, v)
    IN
    IF user = NoEntry
        THEN [status |-> 401, msg |-> "User not found.", user |-> user,
              entry |-> entry, path |-> path]
    ELSE IF user.tokenVersion # 0 /\ v # user.tokenVersion
        THEN [status |-> 401, msg |-> "Session expired. Please log in again.",
              user |-> user, entry |-> entry, path |-> path]
    ELSE [status |-> 200, msg |-> "", user |-> user, entry |-> entry,
          path |-> path]

\* protect = [authenticate, requireActive]
ProtectRun(cached, dbUser, v) ==
    LET r == AuthRun(cached, dbUser, v) IN
    IF r.status = 200 /\ ~r.user.isActive
    THEN [r EXCEPT !.status = 403,
                   !.msg = "Account not activated. Please check your email."]
    ELSE r

\* GET /auth/me with a JWT of user u signed with version v.
GetMe(u, v) ==
    /\ LET r == ProtectRun(cache[u], users[u], v) IN
       /\ cache' = [cache EXCEPT ![u] = r.entry]
       /\ resp' = [op |-> "me", status |-> r.status, msg |-> r.msg,
                   u |-> u, v |-> v, path |-> r.path]
    /\ UNCHANGED <<files, blobs, users, nextId, now, calls, tokens>>

\* The same request step by step.  When the cached object is used the
\* request is answered at once; otherwise User.findById is awaited and the
\* record it returned is cached and checked in a later step.
BeginAuth(p, u, v) ==
    /\ p # "reaper" /\ calls[p].pc = "idle"
    /\ IF AuthRun(cache[u], NoEntry, v).user # NoEntry
       THEN GetMe(u, v)
       ELSE /\ calls' = [calls EXCEPT ![p] =
                            [pc |-> "authing", u |-> u, nodes |-> {},
                             keys |-> {}, freed |-> 0, ru |-> users[u],
                             v |-> v]]
            /\ UNCHANGED <<files, blobs, users, cache, nextId, now, resp,
                           tokens>>

FinishAuth(p) ==
    /\ calls[p].pc = "authing"
    /\ LET r == ProtectRun(NoEntry, calls[p].ru, calls[p].v) IN
       /\ cache' = IF calls[p].ru = NoEntry THEN cache
                   ELSE [cache EXCEPT ![calls[p].u] = calls[p].ru]
       /\ resp' = [op |-> "me", status |-> r.status, msg |-> r.msg,
                   u |-> calls[p].u, v |-> calls[p].v, path |-> r.path]
    /\ calls' = [calls EXCEPT ![p] = IdleCall]
    /\ UNCHANGED <<files, blobs, users, nextId, now, tokens>>

\* ------------------------------------------- POST /auth/reset-password
\* With the token of an unconsumed reset record of the user: the record is
\* consumed, the password replaced and tokenVersion incremented; cache.del
\* swallows its errors, so the cache entry is deleted or stays.
ResetPassword(u, delOk) ==
    /\ users[u] # NoEntry /\ u \in tokens
    /\ users[u].tokenVersion < MaxVersion
    /\ tokens' = tokens \ {u}
    /\ users' = [users EXCEPT ![u].tokenVersion = @ + 1]
    /\ cache' = IF delOk THEN [cache EXCEPT ![u] = NoEntry] ELSE cache
    /\ resp' = [op |-> "resetPassword", status |-> 204, msg |-> ""]
    /\ UNCHANGED <<files, blobs, nextId, now, calls>>

\* ------------------------------------------- POST /upload, step by step
\* authenticate: req.user is read (from the cache or the database) and stays
\* the request's view of the user until the response.
BeginUpload(p, u, size) ==
    /\ p # "reaper" /\ calls[p].pc = "idle"
    /\ calls' = [calls EXCEPT ![p] =
                    [pc |-> "uploading", u |-> u, nodes |-> {}, keys |-> {},
                     freed |-> 0, ru |-> ReqUser(u), size |-> size]]
    /\ Authenticate(u)
    /\ UNCHANGED <<files, blobs, users, nextId, now, resp, tokens>>

\* checkQuota, the S3 put and the handler, with the req.user read before.
FinishUpload(p) ==
    /\ calls[p].pc = "uploading"
    /\ nextId <= MaxFiles
    /\ LET r == UploadRun(Store, calls[p].ru, calls[p].u, Null, << >>, "a",
                          calls[p].size, 0, NoFail) IN
       /\ files' = r.files
       /\ blobs' = r.blobs
       /\ users' = r.users
       /\ nextId' = r.nextId
       /\ resp' = [op |-> "upload", status |-> r.status, msg |-> r.msg]
    /\ calls' = [calls EXCEPT ![p] = IdleCall]
    /\ UNCHANGED <<cache, now, tokens>>

\* --------------------------------------- POST /:id/move, step by step
\* The reads of the handler: the item, the destination, the ancestor walk
\* and the name check.  A request they reject, or that asks for the parent
\* the item already has, is answered at once; otherwise item.parentId is
\* assigned and the save is still to come.
BeginMove(p, u, id, newParentId) ==
    /\ p # "reaper" /\ calls[p].pc = "idle"
    /\ LET r == MoveRun(files, u, id, newParentId) IN
       IF r.files = files
       THEN /\ resp' = [op |-> "move", status |-> r.status, msg |-> r.msg]
            /\ UNCHANGED calls
       ELSE /\ calls' = [calls EXCEPT ![p] =
                           [pc |-> "moving", u |-> u, nodes |-> {id},
                            keys |-> {}, freed |-> 0, parentId |-> newParentId]]
            /\ UNCHANGED resp
    /\ Authenticate(u)
    /\ UNCHANGED <<files, blobs, users, nextId, now, tokens>>

\* await item.save(): the update writes the modified path, parentId.
FinishMove(p) ==
    /\ calls[p].pc = "moving"
    /\ files' = [i \in DOMAIN files |->
                    IF i \in calls[p].nodes
                    THEN [files[i] EXCEPT !.parentId = calls[p].parentId]
                    ELSE files[i]]
    /\ resp' = [op |-> "move", status |-> 200, msg |-> ""]
    /\ calls' = [calls EXCEPT ![p] = IdleCall]
    /\ UNCHANGED <<blobs, users, cache, nextId, now, tokens>>

\* A registered, activated user that never reset the password.
NewUser ==
    [storageUsed |-> 0, storageLimit |-> StorageLimit, tokenVersion |-> 0,
     isActive |-> TRUE]

Init ==
    /\ files = << >>
    /\ blobs = {}
    /\ users = [u \in Users |-> NewUser]
    /\ cache = [u \in Users |-> NoEntry]
    /\ nextId = 1
    /\ now = 0
    /\ resp = [op |-> "none", status |-> 0, msg |-> ""]
    /\ calls = [p \in Procs |-> IdleCall]
    /\ tokens = {}

Callers == {"u1"}
ContentLengths(size) == {0, size + 1}

Folders ==
    \E u \in Callers, n \in Names \cup {""}, p \in {Null} \cup Ids :
        CreateFolder(u, n, p)
Uploads ==
    \E u \in Callers, p \in {Null} \cup Ids, d \in DirPaths, n \in Names,
       s \in FileSizes :
        \E cl \in ContentLengths(s) : Upload(u, p, d, n, s, cl)
Renames == \E u \in Callers, i \in Ids, n \in Names \cup {""} : Rename(u, i, n)
Moves == \E u \in Callers, i \in Ids, p \in {Null} \cup Ids : Move(u, i, p)
Trashes == \E u \in Callers, i \in Ids : ToggleTrash(u, i)
Restores == \E u \in Callers, i \in Ids : Restore(u, i)
Deletes == \E u \in Callers, i \in Ids : DeletePermanent(u, i)
Expiries == \E u \in Callers : CacheExpire(u)
\* Uploads of one-byte files named "a", at most one directory deep.
UnitUploads ==
    \E u \in Callers, p \in {Null} \cup Ids, d \in {<< >>, <<"a">>} :
        Upload(u, p, d, "a", 1, 0)
BulkTrashes == \E u \in Callers, ids \in IdLists : BulkDelete(u, ids)
BulkRestores == \E u \in Callers, ids \in IdLists : BulkRestore(u, ids)
BulkPermanents == \E u \in Callers, ids \in IdLists : BulkPermanent(u, ids)
EmptyTrashes ==
    \E u \in Callers : \E o \in Orders(TrashedOf(files, u)) : EmptyTrash(u, o)
FailedBulkTrashes ==
    \E u \in Callers, ids \in IdLists : \E k \in 1..Len(ids) :
        BulkDeleteFails(u, ids, k)
FailedBulkRestores ==
    \E u \in Callers, ids \in IdLists : \E k \in 1..Len(ids) :
        BulkRestoreFails(u, ids, k)
\* One store call of one deleteFilePermanently of the loop throws.
FailedBulkPermanents ==
    \E u \in Callers, ids \in {l \in IdLists : Len(l) = 2},
       at \in DeleteFailPoints :
        \E k \in 1..Len(ids) :
            \E c \in (IF at \in {"childS3", "childDb"}
                      THEN DOMAIN files ELSE {Null}) :
                BulkPermanentFails(u, ids, k, at, c, {})
FailedEmptyTrashes ==
    \E u \in Callers, at \in DeleteFailPoints :
        \E o \in Orders(TrashedOf(files, u)) :
            \E k \in 1..Len(o) :
                \E c \in (IF at \in {"childS3", "childDb"}
                          THEN DOMAIN files ELSE {Null}) :
                    EmptyTrashFails(u, o, k, at, c, {})
Ticks == Tick
\* The orders in which File.find may return each user's expired documents.
RECURSIVE ExpiredOrdersOf(_)
ExpiredOrdersOf(US) ==
    IF US = {} THEN {<< >>}
    ELSE LET u == CHOOSE x \in US : TRUE
         IN {(u :> o) @@ f : o \in Orders(ExpiredOf(files, u, now)),
                              f \in ExpiredOrdersOf(US \ {u})}
ExpiredOrders == ExpiredOrdersOf(Users)
Sweeps ==
    \E uo \in Orders(Users) : \E fo \in ExpiredOrders : cleanupTrash(uo, fo)
FailedSweeps ==
    \E uo \in Orders(Users), fu \in Users, at \in DeleteFailPoints :
        \E fo \in ExpiredOrders :
            \E k \in 1..Len(fo[fu]) :
                \E c \in (IF at \in {"childS3", "childDb"}
                          THEN Children(files, fu, fo[fu][k]) ELSE {Null}) :
                    cleanupTrashFails(uo, fo, fu, k, at, c, {})
\* Uploads and trash toggles by either user.
AnyUserUploads ==
    \E u \in Users : Upload(u, Null, << >>, "a", 1, 0)
AnyUserTrashes == \E u \in Users, i \in Ids : ToggleTrash(u, i)
\* Requests by either user, with any id as item id, parentId or bulk id.
AnyUserDeletes == \E u \in Users, i \in Ids : DeletePermanent(u, i)
AnyUserBulkStars ==
    \E u \in Users, ids \in {l \in IdLists : Len(l) = 2 => l[1] < l[2]} :
        BulkStar(u, ids)
AnyUserExpiries == \E u \in Users : CacheExpire(u)
UploadBegins ==
    \E p \in {"api", "api2"}, u \in Callers, s \in FileSizes :
        BeginUpload(p, u, s)
UploadFinishes == \E p \in {"api", "api2"} : FinishUpload(p)
RootFolders == \E u \in Callers, n \in Names : CreateFolder(u, n, Null)
MoveBegins ==
    \E p \in {"api", "api2"}, u \in Callers, i \in Ids, np \in {Null} \cup Ids :
        BeginMove(p, u, i, np)
MoveFinishes == \E p \in {"api", "api2"} : FinishMove(p)
CallBegins == \E p \in Procs, u \in Callers, i \in Ids : BeginDelete(p, u, i)
CallRemoves == \E p \in Procs : RemoveRead(p)
CallSubtracts == \E p \in Procs : SubtractFreed(p)
\* req.body.parentId: absent, the id of a document that exists or existed, or
\* an id of no document.
ZipImports ==
    \E u \in Callers, a \in Archives :
        \E p \in {Null, BogusId} \cup 1..(nextId - 1) : UploadZip(u, p, a, 0)
Stars == \E u \in Callers, i \in Ids : ToggleStar(u, i)
BulkStars == \E u \in Callers, ids \in IdLists : BulkStar(u, ids)
FailedUploads ==
    \E u \in Callers, p \in {Null} \cup Ids, d \in DirPaths, n \in Names,
       s \in FileSizes, at \in UploadFailPoints :
        \E cl \in ContentLengths(s),
           j \in (IF at = "dirs" THEN 1..Len(d) ELSE {0}) :
            UploadFails(u, p, d, n, s, cl, at, j)
\* Uploads of a file named "a", at the root or into node 1, with or without
\* a one-folder relativePath; and the same with one failing store call.
SizedUploads ==
    \E u \in Callers, p \in {Null, 1}, d \in {<< >>, <<"a">>}, s \in FileSizes :
        Upload(u, p, d, "a", s, 0)
FailedSizedUploads ==
    \E u \in Callers, p \in {Null, 1}, d \in {<< >>, <<"a">>}, s \in FileSizes,
       at \in UploadFailPoints :
        \E j \in (IF at = "dirs" THEN 1..Len(d) ELSE {0}) :
            UploadFails(u, p, d, "a", s, 0, at, j)
\* Requests of users that have a User record; account deletion, with and
\* without a failing store call; the S3 deletes it leaves running.
\* Uploads of one-byte files named "a" at the root, with or without a
\* one-folder relativePath.
RootUploads ==
    \E u \in Callers, d \in {<< >>, <<"a">>} : Upload(u, Null, d, "a", 1, 0)
\* Uploads of one-byte files named "a" into any parent, no relativePath.
FlatUploads ==
    \E u \in Callers, p \in {Null} \cup Ids : Upload(u, p, << >>, "a", 1, 0)
\* Uploads at the root of files with and without an extension, with or
\* without a one-folder relativePath.
UploadNames == {"a", "a.txt", ".env"}
NamedUploads ==
    \E u \in Callers, d \in {<< >>, <<"a">>}, n \in UploadNames :
        Upload(u, Null, d, n, 1, 0)
PasswordChanges == \E u \in Callers, delOk \in BOOLEAN : ResetPassword(u, delOk)
Mes == \E u \in Callers, v \in Versions : GetMe(u, v)
AuthBegins == \E u \in Callers, v \in Versions : BeginAuth("api2", u, v)
AuthFinishes == FinishAuth("api2")
MemberUploads ==
    \E u \in Callers, d \in {<< >>, <<"a">>} :
        users[u] # NoEntry /\ Upload(u, Null, d, "a", 1, 0)
PasswordResets == \E u \in Callers : ForgotPassword(u)
AccountDeletions ==
    \E u \in Callers, pw \in Passwords, t \in BOOLEAN, delOk \in BOOLEAN :
        DeleteAccount("api", u, pw, t, "none", delOk)
FailedAccountDeletions ==
    \E u \in Callers, t \in BOOLEAN, fail \in AccountFailPoints,
       delOk \in BOOLEAN :
        /\ users[u] # NoEntry
        /\ fail = "commit" => t
        /\ DeleteAccount("api", u, "right", t, fail, delOk)
S3Cleanups ==
    \E ok \in BOOLEAN : \E k \in calls["api"].keys : CleanupS3("api", k, ok)
FailedDeletes ==
    \E u \in Callers, i \in DOMAIN files, at \in DeleteFailPoints :
        \E c \in (IF at \in {"childS3", "childDb"}
                  THEN Children(files, u, i) ELSE {Null}) :
            \E done \in (IF at \in {"childS3", "childDb"}
                         THEN SUBSET (Children(files, u, i) \ {c}) ELSE {{}}) :
                DeleteFails(u, i, at, c, done)

\* Requests run one at a time, no store call fails.
Next ==
    \/ Folders
    \/ Uploads
    \/ Renames
    \/ Moves
    \/ Trashes
    \/ Restores
    \/ Deletes
    \/ Expiries
    \/ BulkTrashes
    \/ BulkRestores
    \/ BulkPermanents
    \/ EmptyTrashes
    \/ Ticks
    \/ Sweeps
    \/ ZipImports
    \/ Stars
    \/ BulkStars

Spec == Init /\ [][Next]_vars

\* Uploads and permanent deletes only, no store call fails.
NextQuota == Uploads \/ Deletes \/ Expiries
SpecQuota == Init /\ [][NextQuota]_vars

\* Folder creation, uploads and moves only.
NextMove == Folders \/ Uploads \/ Moves
SpecMove == Init /\ [][NextMove]_vars

\* Folder creation, uploads, trash and restore.
NextTrash == Folders \/ Uploads \/ Trashes \/ Restores
SpecTrash == Init /\ [][NextTrash]_vars

\* Folder creation, uploads and renames.
NextRename == Folders \/ Uploads \/ Renames
SpecRename == Init /\ [][NextRename]_vars

\* Uploads and permanent deletes in which at most one store call fails.
NextFail == Uploads \/ Deletes \/ FailedUploads \/ FailedDeletes
SpecFail == Init /\ [][NextFail]_vars

\* Folder creation, uploads, moves, trash and restore, one request at a time.
NextTree == Folders \/ Uploads \/ Moves \/ Trashes \/ Restores
SpecTree == Init /\ [][NextTree]_vars

\* Uploads, trash and restore, single and bulk.
NextBin == UnitUploads \/ Trashes \/ Restores \/ BulkTrashes \/ BulkRestores
SpecBin == Init /\ [][NextBin]_vars

\* Uploads and bulk permanent deletes, no store call fails.
NextPurge == UnitUploads \/ BulkPermanents
SpecPurge == Init /\ [][NextPurge]_vars

\* Uploads, bulk trash, and the four bulk operations with one store call of
\* the request failing.
NextBulkFail ==
    \/ UnitUploads
    \/ BulkTrashes
    \/ FailedBulkTrashes
    \/ FailedBulkRestores
    \/ FailedBulkPermanents
    \/ FailedEmptyTrashes
SpecBulkFail == Init /\ [][NextBulkFail]_vars

\* Uploads, trash, the clock and the reaper, no store call fails.
NextReap == UnitUploads \/ Trashes \/ Ticks \/ Sweeps
SpecReap == Init /\ [][NextReap]_vars

\* Two users' uploads and trash, the clock, and reaper sweeps in which one
\* store call fails.
NextReapFail == AnyUserUploads \/ AnyUserTrashes \/ Ticks \/ FailedSweeps
SpecReapFail == Init /\ [][NextReapFail]_vars

\* Uploads, trash and the clock, with permanent deletes by two API requests
\* and the reaper running call by call, so that they overlap.
NextRace ==
    \/ UnitUploads
    \/ Trashes
    \/ Ticks
    \/ CallBegins
    \/ CallRemoves
    \/ CallSubtracts
SpecRace == Init /\ [][NextRace]_vars

\* Uploads, zip imports, permanent deletes and cache expiry.
NextZip == UnitUploads \/ ZipImports \/ Deletes \/ Expiries
SpecZip == Init /\ [][NextZip]_vars

\* Two users, each sending requests that name any id.
NextShare ==
    \/ AnyUserUploads
    \/ AnyUserDeletes
    \/ AnyUserBulkStars
    \/ AnyUserExpiries
SpecShare == Init /\ [][NextShare]_vars

\* Uploads, any one store call of which may fail.
NextUploadFail == SizedUploads \/ FailedSizedUploads \/ Expiries
SpecUploadFail == Init /\ [][NextUploadFail]_vars

\* Uploads and permanent deletes, any one store call of which may fail.
NextDeleteFail == UnitUploads \/ Deletes \/ FailedDeletes \/ Expiries
SpecDeleteFail == Init /\ [][NextDeleteFail]_vars

\* Uploads, password-reset requests and account deletion.
NextAccount ==
    \/ MemberUploads
    \/ PasswordResets
    \/ AccountDeletions
    \/ FailedAccountDeletions
    \/ S3Cleanups
    \/ Expiries
SpecAccount == Init /\ [][NextAccount]_vars

\* The life of a node: created, starred, trashed, restored, deleted.
NextLife ==
    \/ RootUploads
    \/ Trashes
    \/ Restores
    \/ Stars
    \/ Deletes
SpecLife == Init /\ [][NextLife]_vars

\* Folder creation, uploads, moves and renames.
NextEdit == Folders \/ FlatUploads \/ Moves \/ Renames
SpecEdit == Init /\ [][NextEdit]_vars

\* Uploads by two API requests running step by step, so that they overlap.
NextUploadRace == UploadBegins \/ UploadFinishes \/ Deletes \/ Expiries
SpecUploadRace == Init /\ [][NextUploadRace]_vars

\* Root folders, and moves by two API requests running step by step.
NextMoveRace == RootFolders \/ MoveBegins \/ MoveFinishes
SpecMoveRace == Init /\ [][NextMoveRace]_vars

\* Password resets, account deletion and authenticated requests, whole and
\* step by step.
NextSession ==
    \/ PasswordResets
    \/ PasswordChanges
    \/ AccountDeletions
    \/ Mes
    \/ AuthBegins
    \/ AuthFinishes
    \/ Expiries
SpecSession == Init /\ [][NextSession]_vars

\* The user objects cache.get and User.findById may return: any quota-free
\* user with any tokenVersion, active or not.
UserObjects ==
    {[NewUser EXCEPT !.tokenVersion = t, !.isActive = a] :
        t \in Versions, a \in BOOLEAN}

\* authenticate as a function of its inputs: the database record and the
\* cached object of the caller are drawn independently (a cached object may
\* disagree with the record), nothing else exists.
InitAuthenticate ==
    /\ files = << >>
    /\ blobs = {}
    /\ users \in [Users -> UserObjects \cup {NoEntry}]
    /\ \A u \in Users \ Callers : users[u] = NewUser
    /\ cache \in [Users -> UserObjects \cup {NoEntry}]
    /\ \A u \in Users \ Callers : cache[u] = NoEntry
    /\ nextId = 1
    /\ now = 0
    /\ resp = [op |-> "none", status |-> 0, msg |-> ""]
    /\ calls = [p \in Procs |-> IdleCall]
    /\ tokens = {}

\* Authenticated requests over every pair of cached object and record.
NextAuthenticate == Mes \/ Expiries
SpecAuthenticate == InitAuthenticate /\ [][NextAuthenticate]_vars

\* Uploads under colliding names, and trash.
NextNames == NamedUploads \/ Trashes
SpecNames == Init /\ [][NextNames]_vars

\* ================================================================ claims
\* Every node below the given ones, at any depth, by parentId.
RECURSIVE DescendantsOf(_, _)
DescendantsOf(fs, S) ==
    LET kids == {c \in DOMAIN fs : fs[c].parentId \in S} \ S
    IN IF kids = {} THEN S ELSE DescendantsOf(fs, S \cup kids)
Descendants(fs, id) == DescendantsOf(fs, {id}) \ {id}

LiveFilesOf(fs, u) ==
    {i \in DOMAIN fs : fs[i].userId = u /\ fs[i].type = "file" /\ ~fs[i].isTrash}

\* C1: after any sequence of completed uploads and permanent deletes with no
\* store failure, every user's persisted storageUsed equals the sum of size
\* over that user's live file nodes.
C1_StorageUsedIsSumOfLiveFiles ==
    \A u \in Users : users[u].storageUsed = SumSize(files, LiveFilesOf(files, u))

\* C1 witness: a permanent delete succeeded and files of the caller remain.
C1_Witness ==
    /\ resp.op = "delete" /\ resp.status = 200
    /\ LiveFilesOf(files, "u1") # {}
    /\ users["u1"].storageUsed > 0

\* C2: trashing a folder sets isTrash on every descendant at every depth, and
\* restoring it clears isTrash on every descendant trashed by that cascade
\* (trashed at the folder's own trashedAt).
C2_TrashCascadesToAllDescendants ==
    [][\A u \in Callers, i \in Ids :
        /\ (ToggleTrash(u, i) /\ OwnItem(files, u, i)
                /\ files[i].type = "folder" /\ ~files[i].isTrash)
            => \A d \in Descendants(files, i) : files'[d].isTrash
        /\ ((ToggleTrash(u, i) \/ Restore(u, i)) /\ OwnItem(files, u, i)
                /\ files[i].type = "folder" /\ files[i].isTrash)
            => \A d \in Descendants(files, i) :
                   (files[d].isTrash /\ files[d].trashedAt = files[i].trashedAt)
                       => ~files'[d].isTrash]_vars

\* C3: a successful permanent delete of a folder leaves no descendant at any
\* depth in the File collection, no blob of a file of the subtree in the
\* bucket, and storageUsed lower by exactly the sizes of the subtree's files.
C3_PermanentDeleteRemovesSubtree ==
    [][\A u \in Callers, i \in Ids :
        (DeletePermanent(u, i) /\ OwnItem(files, u, i)
            /\ files[i].type = "folder")
        => LET subtree == Descendants(files, i) \cup {i} IN
           /\ resp'.status = 200
           /\ (DOMAIN files') \cap subtree = {}
           /\ blobs' \cap KeysOf(files, FilesIn(files, subtree)) = {}
           /\ users'[u].storageUsed =
                  users[u].storageUsed - SumSize(files, FilesIn(files, subtree))]_vars

\* C4: in every reachable state, also when one store call failed during an
\* upload or a permanent delete, every file node's s3Key is a blob of the
\* bucket.
C4_EveryFileNodeHasItsBlob ==
    \A i \in DOMAIN files : files[i].type = "file" => files[i].s3Key \in blobs

\* Following parentId from a node reaches null without visiting a node twice.
RECURSIVE ReachesRoot(_, _, _)
ReachesRoot(fs, id, seen) ==
    IF fs[id].parentId = Null THEN TRUE
    ELSE IF fs[id].parentId \in seen \/ fs[id].parentId \notin DOMAIN fs THEN FALSE
    ELSE ReachesRoot(fs, fs[id].parentId, seen \cup {fs[id].parentId})

\* C5: for every node, following parentId repeatedly reaches null without
\* visiting any node twice, before and after any sequence of moves, accepted
\* or rejected.
C5_ParentChainsReachRoot ==
    \A i \in DOMAIN files : ReachesRoot(files, i, {i})

\* C5 witness: an accepted move produced a chain of three nodes.
C5_Witness ==
    /\ resp.op = "move" /\ resp.status = 200
    /\ \E i \in DOMAIN files :
           /\ files[i].parentId \in DOMAIN files
           /\ files[files[i].parentId].parentId \in DOMAIN files

\* C6: a move that is rejected for any reason leaves every node, every blob
\* and storageUsed as they were.
C6_RejectedMoveChangesNothing ==
    [][(resp'.op = "move" /\ resp'.status # 200)
        => (files' = files /\ blobs' = blobs /\ users' = users)]_vars

\* C6 witness: a move into a descendant was rejected while blobs exist.
C6_Witness ==
    /\ resp.op = "move" /\ resp.status = 400
    /\ resp.msg = "Cannot move folder into its own descendant."
    /\ blobs # {}

\* C7: an upload whose size added to the user's storageUsed exceeds
\* storageLimit is rejected with the quota error, storageUsed is unchanged,
\* and neither a file node nor a blob of the upload exists afterwards.
C7_OverQuotaUploadRejected ==
    [][\A u \in Callers, p \in {Null} \cup Ids, d \in DirPaths, n \in Names,
          s \in FileSizes :
        \A cl \in ContentLengths(s) :
            (Upload(u, p, d, n, s, cl)
                /\ users[u].storageUsed + s > users[u].storageLimit)
            => /\ resp'.status = 403
               /\ users' = users
               /\ blobs' = blobs
               /\ FilesIn(files', DOMAIN files') = FilesIn(files, DOMAIN files)]_vars

\* C8: with uploads run one at a time and the user cache enabled, storageUsed
\* never exceeds storageLimit.
C8_StorageUsedWithinLimit ==
    \A u \in Users : users[u].storageUsed <= users[u].storageLimit

\* C9: create-folder with a name a live sibling (file or folder) under the
\* same parent already has is rejected and creates no node.
C9_CreateFolderNameConflict ==
    [][\A u \in Callers, n \in Names, p \in {Null} \cup Ids :
        (CreateFolder(u, n, p)
            /\ (p = Null \/ ParentDoc(files, u, p) = p)
            /\ NameTaken(files, u, p, n))
        => (resp'.status = 400 /\ files' = files)]_vars

LiveSiblingNamed(fs, u, id, name) ==
    \E j \in DOMAIN fs : /\ j # id
                         /\ fs[j].userId = u
                         /\ fs[j].parentId = fs[id].parentId
                         /\ fs[j].name = name
                         /\ ~fs[j].isTrash

\* C10: renaming a node to a name a live sibling under the same parent has is
\* rejected and the node keeps its name; an accepted rename leaves the node's
\* type and parentId unchanged.
C10_RenameNameConflict ==
    [][\A u \in Callers, i \in Ids, n \in Names :
        (Rename(u, i, n) /\ OwnItem(files, u, i))
        => /\ LiveSiblingNamed(files, u, i, n)
                => (resp'.status # 200 /\ files'[i].name = files[i].name)
           /\ resp'.status = 200
                => (/\ files'[i].type = files[i].type
                    /\ files'[i].parentId = files[i].parentId)]_vars

\* The id names a live folder of the caller.
LiveOwnFolder(fs, u, id) ==
    OwnItem(fs, u, id) /\ fs[id].type = "folder" /\ ~fs[id].isTrash

\* C11: create-folder or upload with a non-null parentId that is not a live
\* folder of the caller (missing, another user's, a file, or trashed) fails
\* and creates no node.
C11_ParentNotFoundRejected ==
    [][\A u \in Callers, p \in Ids, n \in Names :
        ~LiveOwnFolder(files, u, p) =>
          /\ CreateFolder(u, n, p)
                => (resp'.status \in {400, 404} /\ files' = files)
          /\ \A d \in DirPaths, s \in FileSizes :
              \A cl \in ContentLengths(s) :
                Upload(u, p, d, n, s, cl)
                    => (resp'.status \in {400, 403, 404} /\ files' = files)]_vars

\* C12: a move whose target parent is not a live folder of the caller, in
\* particular a trashed folder, is rejected and the node is not reparented.
C12_MoveIntoNonLiveFolderRejected ==
    [][\A u \in Callers, i \in Ids, p \in Ids :
        (Move(u, i, p) /\ OwnItem(files, u, i) /\ files[i].parentId # p
            /\ ~LiveOwnFolder(files, u, p))
          => (resp'.status = 400 /\ files' = files)]_vars

\* Every folder on the parentId chain above the node.
RECURSIVE AncestorsOf(_, _, _)
AncestorsOf(fs, id, fuel) ==
    IF fuel = 0 \/ id \notin DOMAIN fs \/ fs[id].parentId = Null
       \/ fs[id].parentId \notin DOMAIN fs
    THEN {}
    ELSE {fs[id].parentId} \cup AncestorsOf(fs, fs[id].parentId, fuel - 1)

\* C13: with requests run one at a time (create folder, upload with or
\* without relativePath, move, trash, restore), no live node has a trashed
\* folder among its ancestors.
C13_NoLiveNodeUnderTrashedFolder ==
    \A i \in DOMAIN files :
        ~files[i].isTrash
            => \A a \in AncestorsOf(files, i, MaxFiles) : ~files[a].isTrash

\* C14: trashing and restoring a node (file or folder, single or bulk) never
\* writes or deletes a blob and never changes storageUsed.  (resp.op names
\* the handler that took the step.)
C14_TrashRestoreKeepBlobsAndQuota ==
    [][resp'.op \in {"toggleTrash", "restore", "bulkDelete", "bulkRestore"}
          => /\ blobs' = blobs
             /\ \A v \in Users :
                    users'[v].storageUsed = users[v].storageUsed]_vars

\* C14 witness: a bulk trash of two nodes left a trashed file with its blob in
\* the bucket and its size still counted.
C14_Witness ==
    /\ resp.op = "bulkDelete" /\ resp.status = 200 /\ resp.count = 2
    /\ \E i \in DOMAIN files :
          /\ files[i].type = "file" /\ files[i].isTrash
          /\ files[i].s3Key \in blobs
          /\ users[files[i].userId].storageUsed >= files[i].size

\* C15: every node has isTrash = true exactly when trashedAt is set.
C15_TrashedAtSetIffTrashed ==
    \A i \in DOMAIN files : files[i].isTrash <=> files[i].trashedAt # NoDate

\* C15 witness: a restore succeeded, leaving a live node next to a trashed one.
C15_Witness ==
    /\ resp.op \in {"restore", "bulkRestore"} /\ resp.status = 200
    /\ \E i, j \in DOMAIN files :
          /\ ~files[i].isTrash /\ files[i].trashedAt = NoDate
          /\ files[j].isTrash /\ files[j].trashedAt # NoDate

\* C16: a bulk permanent delete repeated with the same ids right after it
\* succeeded deletes no node and no blob, leaves storageUsed unchanged and
\* answers success with count 0.
C16_BulkPermanentIdempotent ==
    [][(/\ resp.op = "bulkPermanent" /\ resp.status = 200
        /\ resp'.op = "bulkPermanent" /\ resp'.ids = resp.ids)
          => /\ files' = files
             /\ blobs' = blobs
             /\ users' = users
             /\ resp'.status = 200
             /\ resp'.count = 0]_vars

\* C16 witness: the repeated call has answered, and the first one had removed
\* nodes (fewer nodes exist than ids were handed out) while others remain.
C16_Witness ==
    /\ resp.op = "bulkPermanent" /\ resp.status = 200 /\ resp.count = 0
    /\ Len(resp.ids) = 2
    /\ \A j \in 1..Len(resp.ids) :
          resp.ids[j] < nextId /\ resp.ids[j] \notin DOMAIN files
    /\ files # << >>

BulkOps == {"bulkDelete", "bulkRestore", "bulkPermanent", "emptyTrash"}

\* C17: in bulk trash, bulk restore, bulk permanent delete and empty-trash a
\* failure on one item does not stop the others: the response is a success
\* carrying the count, and after a bulk permanent delete at most the one
\* failed id of the caller's ids is still stored.
C17_BulkFailureDoesNotStopOthers ==
    [][resp'.op \in BulkOps =>
        /\ resp'.status \in {200, 400}
        /\ resp'.op = "bulkPermanent" =>
              Cardinality({j \in 1..Len(resp'.ids) :
                              /\ resp'.ids[j] \in DOMAIN files
                              /\ resp'.ids[j] \in DOMAIN files'}) <= 1]_vars

\* C18: if permanent deletion fails for an expired node of one user during a
\* sweep, the sweep still processes the expired nodes of every other user:
\* after a sweep at most that one user has nodes left that were expired
\* when it started.
C18_SweepFailureSparesOtherUsers ==
    [][resp'.op = "cleanupTrash" =>
        Cardinality({u \in Users :
                        ExpiredOf(files, u, now) \cap DOMAIN files' # {}}) <= 1
      ]_vars

\* C19: a sweep in which no store call fails raises no error, removes every
\* expired node, whether by its own call or as a child of an expired folder
\* processed before it, in whichever order the nodes are processed, and
\* lowers each storageUsed by exactly the sizes of the user's removed files.
C19_SweepRemovesEachNodeOnce ==
    [][resp'.op = "cleanupTrash" =>
        /\ resp'.status = 200
        /\ \A u \in Users :
              LET gone == {i \in DOMAIN files \ DOMAIN files' :
                              files[i].userId = u}
              IN /\ ExpiredOf(files, u, now) \subseteq gone
                 /\ users'[u].storageUsed =
                        users[u].storageUsed - SumSize(files, FilesIn(files, gone))
        /\ blobs' = blobs \ KeysOf(files,
                                   FilesIn(files, DOMAIN files \ DOMAIN files'))
      ]_vars

\* C19 witness: a sweep found two expired nodes and called the delete once:
\* the second was already removed as a child of the first, and the quota is
\* back to zero.
C19_Witness ==
    /\ resp.op = "cleanupTrash" /\ resp.status = 200
    /\ resp.found = 2 /\ resp.count = 1
    /\ files = << >> /\ blobs = {}
    /\ users["u1"].storageUsed = 0

\* C20: when a reaper sweep and an API permanent delete of the same node, or
\* two API permanent deletes of it, overlap, the size of each removed file
\* is subtracted from storageUsed exactly once: once no call is in flight,
\* storageUsed is again the sum of the sizes of the user's stored files.
C20_OverlappingDeletesSubtractOnce ==
    (\A p \in Procs : calls[p].pc = "idle")
        => \A u \in Users :
              users[u].storageUsed =
                  SumSize(files, {i \in DOMAIN files :
                                     files[i].userId = u /\ files[i].type = "file"})

\* C21: a zip import whose total uncompressed size added to the user's
\* storageUsed exceeds storageLimit is rejected as a whole: an import is
\* accepted only if storageUsed stays within the limit, and a rejected one
\* creates no node, writes no blob and leaves storageUsed unchanged.
C21_OverQuotaZipRejected ==
    [][resp'.op = "uploadZip" =>
        /\ resp'.status = 201 =>
              \A u \in Callers : users'[u].storageUsed <= users'[u].storageLimit
        /\ resp'.status # 201 =>
              files' = files /\ blobs' = blobs /\ users' = users]_vars

\* C22: after a successful zip import storageUsed has increased by exactly
\* the sum of the sizes of the file nodes the import created.
C22_ZipAddsSizesOfCreatedFiles ==
    [][(resp'.op = "uploadZip" /\ resp'.status = 201) =>
        \A u \in Callers :
            users'[u].storageUsed - users[u].storageUsed =
                SumSize(files', {i \in DOMAIN files' \ DOMAIN files :
                                    files'[i].type = "file"})]_vars

\* C23: every node's parentId is null or the id of an existing folder node
\* of the same user.
C23_ParentIsOwnExistingFolder ==
    \A i \in DOMAIN files :
        \/ files[i].parentId = Null
        \/ /\ files[i].parentId \in DOMAIN files
           /\ files[files[i].parentId].type = "folder"
           /\ files[files[i].parentId].userId = files[i].userId

\* What belongs to user v: the documents, the blobs of the documents, and
\* the User record.
DataOf(fs, bl, us, v) ==
    [docs |-> {<<i, fs[i]>> : i \in {j \in DOMAIN fs : fs[j].userId = v}},
     blobs |-> {k \in bl : \E i \in DOMAIN fs :
                              fs[i].userId = v /\ fs[i].s3Key = k},
     user |-> us[v]]

\* The store as user u alone would see it.
OwnFiles(fs, u) == Remove(fs, {i \in DOMAIN fs : fs[i].userId # u})

NewFileNodes == {i \in DOMAIN files' \ DOMAIN files : files'[i].type = "file"}

\* C25: an upload changes storageUsed only when it answers 201, having
\* created its file node and written the node's blob; an upload step that
\* creates no file node leaves every storageUsed as it was.
C25_IncrementAfterBlobAndNode ==
    [][resp'.op = "upload" =>
        /\ users' # users =>
              /\ resp'.status = 201
              /\ \E i \in NewFileNodes : files'[i].s3Key \in blobs'
        /\ NewFileNodes = {} => users' = users]_vars

\* C25 witness: an upload made its relativePath folder and then failed
\* before its file node existed; storageUsed is still 0.
C25_Witness ==
    /\ resp.op = "upload" /\ resp.status = 500
    /\ \E i \in DOMAIN files : files[i].type = "folder"
    /\ \A i \in DOMAIN files : files[i].type = "folder"
    /\ blobs = {}
    /\ users["u1"].storageUsed = 0

\* C26: when File.create throws after the blob of an upload was written, the
\* request answers 500 and leaves no file node and no blob of the upload,
\* and storageUsed is unchanged.
C26_CreateFailureLeavesNothing ==
    [][\A u \in Callers, p \in {Null, 1}, d \in {<< >>, <<"a">>},
          s \in FileSizes :
            UploadFails(u, p, d, "a", s, 0, "create", 0) =>
                /\ resp'.status = 500
                /\ NewFileNodes = {}
                /\ blobs' = blobs
                /\ users' = users]_vars

\* C26 witness: after one stored upload, a second upload made its
\* relativePath folder and failed before its node existed: the folder is
\* empty, the only blob is the first upload's, storageUsed is its size.
C26_Witness ==
    /\ resp.op = "upload" /\ resp.status = 500
    /\ \E f \in DOMAIN files :
          /\ files[f].type = "file" /\ blobs = {files[f].s3Key}
          /\ users["u1"].storageUsed = files[f].size
          /\ \A i \in DOMAIN files \ {f} :
                files[i].type = "folder" /\ files[f].parentId # i
    /\ \E i \in DOMAIN files : files[i].type = "folder"

\* The nodes a step removed.
RemovedNodes == DOMAIN files \ DOMAIN files'

\* C27: in a permanent delete no file record is removed while its blob is
\* still stored (the blob delete precedes the record delete); storageUsed
\* changes only in a run that answered 200 after removing the item and every
\* child it found; a run in which a store call threw leaves storageUsed as
\* it was.
C27_BlobThenRecordThenQuota ==
    [][resp'.op = "delete" =>
        /\ \A i \in RemovedNodes :
              files[i].type = "file" => files[i].s3Key \notin blobs'
        /\ users' # users =>
              /\ resp'.status = 200
              /\ \E u \in Callers, id \in RemovedNodes :
                    RemovedNodes = {id} \cup
                        (IF files[id].type = "folder"
                         THEN Children(files, u, id) ELSE {})
        /\ resp'.status = 500 => users' = users]_vars

\* C27 witness: a permanent delete threw after a file's blob was deleted and
\* before its record was: the record is still there, storageUsed still
\* counts it.
C27_Witness ==
    /\ resp.op = "delete" /\ resp.status = 500
    /\ \E i \in DOMAIN files :
          /\ files[i].type = "file" /\ files[i].s3Key \notin blobs
          /\ users["u1"].storageUsed >= files[i].size

\* C28: in account deletion a blob is deleted only when the deletion of its
\* owner's file nodes, reset tokens and User record is already in the
\* database; no request step, whatever its answer, deletes a blob itself:
\* only the S3 deletes started after the commit do; and an S3 delete that
\* settles, fulfilled or rejected, changes neither the response nor any
\* metadata.
C28_BlobsOnlyAfterCommittedErasure ==
    [][/\ \A k \in blobs \ blobs' :
              /\ users[k[2]] = NoEntry
              /\ DocsOf(files, k[2]) = {}
              /\ k[2] \notin tokens
       /\ blobs \ blobs' # {} =>
              \E p \in Procs : calls[p].pc = "cleanup" /\ calls'[p] # calls[p]
       /\ (\E p \in Procs : calls[p].pc = "cleanup" /\ calls'[p] # calls[p]) =>
              /\ resp' = resp
              /\ files' = files /\ users' = users /\ tokens' = tokens]_vars

\* C28 witness: u1's account is deleted with answer 200, the S3 deletes have
\* all settled, one of them rejected: a blob of u1 is still stored, and no
\* node, token or User record of u1 is.
C28_Witness ==
    /\ resp.op = "deleteAccount" /\ resp.status = 200
    /\ users["u1"] = NoEntry /\ DocsOf(files, "u1") = {} /\ "u1" \notin tokens
    /\ \A p \in Procs : calls[p].pc = "idle"
    /\ \E k \in blobs : k[2] = "u1"
    /\ \E i \in Ids : i < nextId /\ UploadKey("u1", i) \notin blobs
                       /\ i \notin DOMAIN files

\* Ids that were given to a node that no longer exists.
DeletedIds == {i \in 1..(nextId - 1) : i \notin DOMAIN files}

\* C29: every node a step creates is live (isTrash false, trashedAt null);
\* a permanently deleted id never has a node again; and a trash, restore,
\* move, rename, star or delete request on it is answered 404.
C29_CreatedLiveDeletedForGood ==
    /\ [][/\ \A i \in DOMAIN files' \ DOMAIN files :
                ~files'[i].isTrash /\ files'[i].trashedAt = NoDate
          /\ \A i \in DeletedIds : i \notin DOMAIN files']_vars
    /\ [](\A u \in Users, i \in DeletedIds :
            /\ ToggleTrashRun(files, u, i, now).status = 404
            /\ RestoreRun(files, u, i).status = 404
            /\ ToggleStarRun(files, u, i).status = 404
            /\ DeleteRun(Store, u, i, NoDeleteFail).status = 404
            /\ \A n \in Names : RenameRun(files, u, i, n).status = 404
            /\ \A p \in {Null} \cup Ids : MoveRun(files, u, i, p).status = 404
            /\ BulkStarRun(files, u, <<i>>).files = files
            /\ SoftDeleteEach(files, u, <<i>>, now).count = 0)

\* C29 witness: node 1 was permanently deleted, and a later star request on
\* a deleted id was answered 404 while another node exists.
C29_Witness ==
    /\ resp.op = "star" /\ resp.status = 404
    /\ 1 \in DeletedIds
    /\ DOMAIN files = 2..(nextId - 1) /\ nextId > 2

\* The nodes a step changed.
ChangedNodes == {i \in DOMAIN files \cap DOMAIN files' : files'[i] # files[i]}

\* C30: a move changes nothing but the parentId of the moved node and a
\* rename nothing but the name of the renamed node: no node is added or
\* removed, at most one node differs, it is the node the request named and
\* it differs in that one field; every blob and every storageUsed stay as
\* they were.
C30_MoveAndRenameTouchOneField ==
    [][resp'.op \in {"move", "rename"} =>
        /\ blobs' = blobs /\ users' = users
        /\ DOMAIN files' = DOMAIN files
        /\ Cardinality(ChangedNodes) <= 1
        /\ \A i \in ChangedNodes :
              IF resp'.op = "move"
              THEN /\ files'[i] =
                        [files[i] EXCEPT !.parentId = files'[i].parentId]
                   /\ \E u \in Callers :
                        MoveRun(files, u, i, files'[i].parentId).files = files'
              ELSE /\ files'[i] = [files[i] EXCEPT !.name = files'[i].name]
                   /\ \E u \in Callers :
                        RenameRun(files, u, i, files'[i].name).files = files'
      ]_vars

\* C30 witness: folder 1 holds file 2 and was moved under folder 3; file 2
\* is still its child, with its blob and its size.
C30_Witness ==
    /\ resp.op = "move" /\ resp.status = 200
    /\ DOMAIN files = {1, 2, 3}
    /\ files[1].type = "folder" /\ files[1].parentId = 3
    /\ files[2].type = "file" /\ files[2].parentId = 1
    /\ files[2].s3Key \in blobs /\ users["u1"].storageUsed >= files[2].size

\* C31: every node a reaper sweep removes is, when the sweep starts, trashed
\* with a trashedAt older than the retention cutoff; a sweep removes no live
\* node and no node trashed within the retention period, the children of an
\* expired trashed folder included.
C31_SweepRemovesOnlyExpired ==
    [][resp'.op = "cleanupTrash" =>
        \A i \in RemovedNodes : i \in ExpiredOf(files, files[i].userId, now)]_vars

\* C32: when two uploads of a user overlap and each fits in the remaining
\* quota but both together do not, they are not both accepted: once no
\* upload is in flight, storageUsed is at most storageLimit.
C32_OverlappingUploadsWithinQuota ==
    (\A p \in Procs : calls[p].pc = "idle")
        => \A u \in Users : users[u].storageUsed <= users[u].storageLimit

\* C33: two overlapping moves of a user (folder A into folder B while B is
\* moved into A) leave no cycle in the parentId chains: once no move is in
\* flight, no node is among its own ancestors.
C33_OverlappingMovesLeaveNoCycle ==
    (\A p \in Procs : calls[p].pc = "idle")
        => \A i \in DOMAIN files : i \notin AncestorsOf(files, i, MaxFiles + 1)

\* C34: storageUsed is never negative, also after an upload failed partway
\* and the nodes it left behind were permanently deleted.
C34_StorageUsedNeverNegative ==
    \A u \in Users : users[u].storageUsed >= 0

\* No two live nodes of a user share parentId and name.
NoLiveDuplicates(fs) ==
    \A i \in DOMAIN fs : \A j \in DOMAIN fs :
        (i # j /\ ~fs[i].isTrash /\ ~fs[j].isTrash
         /\ fs[i].userId = fs[j].userId /\ fs[i].parentId = fs[j].parentId)
            => fs[i].name # fs[j].name

\* C35: restoring a trashed node, with the children restored with it, never
\* results in two live siblings with the same name: a restore that starts
\* without live duplicates ends without them.
C35_RestoreKeepsLiveNamesUnique ==
    [][(resp'.op \in {"restore", "toggleTrash", "bulkRestore"}
        /\ NoLiveDuplicates(files))
            => NoLiveDuplicates(files')]_vars

\* C36: a zip import that starts with no two live siblings sharing a name
\* ends with none, whether names in the archive collide with existing live
\* files or folders or with each other.
C36_ZipKeepsLiveNamesUnique ==
    [][(resp'.op = "uploadZip" /\ NoLiveDuplicates(files))
            => NoLiveDuplicates(files')]_vars

\* ---------------------------------------------------------------- C37
\* C37: an upload whose file name equals that of a live sibling is not
\* rejected; the new file is stored under the first name of the form
\* "base (k)ext", k = 1, 2, ..., that no live sibling has, and an upload that
\* starts from live sibling names that are unique leaves them unique.
FirstFreeName(fs, u, parent, name) ==
    \E n \in UploadNames :
        \/ name = n /\ ~NameTaken(fs, u, parent, n)
        \/ /\ NameTaken(fs, u, parent, n)
           /\ \E k \in 1..MaxFiles :
                /\ name = NumberedName(n, k)
                /\ ~NameTaken(fs, u, parent, name)
                /\ \A j \in 1..(k - 1) : NameTaken(fs, u, parent, NumberedName(n, j))

C37_UploadKeepsLiveNamesUnique ==
    [][(resp'.op = "upload" /\ resp'.status = 201)
          => /\ \A i \in NewFileNodes :
                  FirstFreeName(files, files'[i].userId, files'[i].parentId,
                                files'[i].name)
             /\ NoLiveDuplicates(files) => NoLiveDuplicates(files')]_vars

\* ---------------------------------------------------------------- C38
\* C38: trashing a live folder and then restoring it leaves every node's
\* isTrash as it was before the trash; a child trashed on its own before the
\* folder was trashed is still trashed after the folder is restored.
TrashThenRestore(fs, u, id, t) ==
    restoreFile(softDeleteFile(fs, u, id, t).files, u, id).files

C38_TrashRestoreRoundTrip ==
    \A u \in Users : \A id \in DOMAIN files :
        (OwnItem(files, u, id) /\ files[id].type = "folder" /\ ~files[id].isTrash)
            => \A j \in DOMAIN files :
                   TrashThenRestore(files, u, id, now)[j].isTrash = files[j].isTrash

\* ---------------------------------------------------------------- C39
\* C39: once a password reset or an account deletion has succeeded,
\* authenticate rejects every JWT issued to the user before it: a JWT signed
\* with a tokenVersion below the user's current one, and any JWT of a deleted
\* user, is answered 401, whatever the cache holds and whichever requests of
\* the user were in flight meanwhile.
IssuedBefore(u, v) ==
    \/ users[u] = NoEntry
    \/ v < users[u].tokenVersion

C39_OldTokensRejected ==
    \A u \in Callers, v \in Versions :
        IssuedBefore(u, v) => AuthRun(cache[u], users[u], v).status = 401

\* ---------------------------------------------------------------- C40
\* C40: a request with a valid token (signed with the user's current
\* tokenVersion) of a user whose cached object says inactive while the
\* database record says active is accepted, and afterwards the cache holds
\* the database record.
C40_StaleInactiveCacheRecovers ==
    [][\A u \in Callers :
          (/\ resp'.op = "me" /\ resp'.u = u
           /\ cache[u] # NoEntry /\ ~cache[u].isActive
           /\ users[u] # NoEntry /\ users[u].isActive
           /\ resp'.v = users[u].tokenVersion)
              => /\ resp'.status = 200
                 /\ cache'[u] = users[u]]_vars

C40_Witness ==
    /\ resp.op = "me" /\ resp.path = "inactive" /\ resp.status = 200
    /\ users[resp.u].isActive
    /\ cache[resp.u] = users[resp.u]
====
